---- MODULE Spec2Model ----
(***************************************************************************)
(* A model of the simple-socks5 server: the message codecs of src/src/msg, *)
(* src/src/auth, src/src/conn and src/src/parse.rs, the negotiation engine *)
(* Socks5::authenticate of src/src/lib.rs, and the connection handler      *)
(* handle_client of examples/simple_server.rs.                             *)
(*                                                                         *)
(* Bytes are integers 0..255 and a buffer is a sequence of bytes.  A Rust  *)
(* String is modelled by the sequence of its UTF-8 bytes.  A Result is a   *)
(* record tagged "Ok" or "Err"; an indexing panic is the tag "Panic".      *)
(***************************************************************************)
EXTENDS Integers, Sequences, FiniteSets, TLC

---------------------------------------------------------------------------
(* Bounds of the model: the lengths of the inputs the client's reads are   *)
(* drawn from.                                                             *)

MaxMethods == 2
MaxCredLen == 2
MaxDomainLen == 2

---------------------------------------------------------------------------
(* Helpers for Rust slices: indices are 0-based, ranges half-open.         *)

Min(a, b) == IF a < b THEN a ELSE b

\* bytes[i]
At(bytes, i) == bytes[i + 1]

\* bytes[from..to]
Slice(bytes, from, to) == SubSeq(bytes, from + 1, to)

\* bytes[..n] for n possibly beyond the end (the prefix a short read leaves)
Prefix(bytes, n) == SubSeq(bytes, 1, Min(n, Len(bytes)))

\* All sequences over S of length 0..n
RECURSIVE SeqsUpTo(_, _)
SeqsUpTo(S, n) ==
    IF n = 0 THEN {<<>>}
    ELSE LET shorter == SeqsUpTo(S, n - 1)
         IN  shorter \cup {Append(s, x) : s \in {t \in shorter : Len(t) = n - 1}, x \in S}

\* All prefixes of a buffer
Prefixes(bytes) == {Prefix(bytes, k) : k \in 0..Len(bytes)}

---------------------------------------------------------------------------
(* Results and errors (src/src/error.rs).                                  *)

Ok(v) == [tag |-> "Ok", val |-> v]
Err(e) == [tag |-> "Err", err |-> e]
Panic == [tag |-> "Panic"]

\* A SocksError value: its variant, the byte it carries (UnsupportedVersion,
\* UnknownMethod, UnsupportedAuthVersion, InvalidAddressType,
\* UnsupportedCommand) and the string it carries (AuthFailed).
SocksError(kind, code, msg) == [kind |-> kind, code |-> code, msg |-> msg]

UnsupportedVersion(ver) == SocksError("UnsupportedVersion", ver, "")
VersionMessageTooShort == SocksError("VersionMessageTooShort", 0, "")
IncompleteVersionMessage == SocksError("IncompleteVersionMessage", 0, "")
UnknownMethod(b) == SocksError("UnknownMethod", b, "")
UnsupportedAuthVersion(ver) == SocksError("UnsupportedAuthVersion", ver, "")
AuthMessageTooShort == SocksError("AuthMessageTooShort", 0, "")
AuthFailed(msg) == SocksError("AuthFailed", 0, msg)
InvalidAddressType(b) == SocksError("InvalidAddressType", b, "")
InvalidDomain == SocksError("InvalidDomain", 0, "")
ConnRequestTooShort == SocksError("ConnRequestTooShort", 0, "")
UnsupportedCommand(b) == SocksError("UnsupportedCommand", b, "")
Io == SocksError("Io", 0, "")

---------------------------------------------------------------------------
(* UTF-8, as String::from_utf8 and String::from_utf8_lossy decide it.      *)

utf8_char_width(b) ==
    IF b < 128 THEN 1
    ELSE IF b >= 194 /\ b <= 223 THEN 2
    ELSE IF b >= 224 /\ b <= 239 THEN 3
    ELSE IF b >= 240 /\ b <= 244 THEN 4
    ELSE 0

\* the byte at i, or 0 past the end
safe_get(bytes, i) == IF i < Len(bytes) THEN At(bytes, i) ELSE 0

\* (b & 0xC0) == 0x80
IsContinuation(b) == b >= 128 /\ b <= 191

SecondOfThree(first, second) ==
    \/ first = 224 /\ second >= 160 /\ second <= 191
    \/ first >= 225 /\ first <= 236 /\ second >= 128 /\ second <= 191
    \/ first = 237 /\ second >= 128 /\ second <= 159
    \/ first >= 238 /\ first <= 239 /\ second >= 128 /\ second <= 191

SecondOfFour(first, second) ==
    \/ first = 240 /\ second >= 144 /\ second <= 191
    \/ first >= 241 /\ first <= 243 /\ second >= 128 /\ second <= 191
    \/ first = 244 /\ second >= 128 /\ second <= 143

\* One scalar value or one maximal invalid sequence starting at index i:
\* whether it is valid and the index after it.
Utf8Chunk(bytes, i) ==
    LET first == At(bytes, i)
        w == utf8_char_width(first)
        b1 == safe_get(bytes, i + 1)
        b2 == safe_get(bytes, i + 2)
        b3 == safe_get(bytes, i + 3)
    IN  CASE w = 1 -> [valid |-> TRUE, next |-> i + 1]
          [] w = 2 -> IF IsContinuation(b1)
                      THEN [valid |-> TRUE, next |-> i + 2]
                      ELSE [valid |-> FALSE, next |-> i + 1]
          [] w = 3 -> IF ~SecondOfThree(first, b1)
                      THEN [valid |-> FALSE, next |-> i + 1]
                      ELSE IF ~IsContinuation(b2)
                      THEN [valid |-> FALSE, next |-> i + 2]
                      ELSE [valid |-> TRUE, next |-> i + 3]
          [] w = 4 -> IF ~SecondOfFour(first, b1)
                      THEN [valid |-> FALSE, next |-> i + 1]
                      ELSE IF ~IsContinuation(b2)
                      THEN [valid |-> FALSE, next |-> i + 2]
                      ELSE IF ~IsContinuation(b3)
                      THEN [valid |-> FALSE, next |-> i + 3]
                      ELSE [valid |-> TRUE, next |-> i + 4]
          [] OTHER -> [valid |-> FALSE, next |-> i + 1]

\* The end of the run of ASCII bytes that starts at i: the index of the
\* first byte >= 0x80 at or after i, or the length (both decoders pass over
\* a run of ASCII bytes in one go)
AsciiRunEnd(bytes, i) ==
    CHOOSE j \in i..Len(bytes) :
        /\ j = Len(bytes) \/ At(bytes, j) >= 128
        /\ \A k \in i..(j - 1) : At(bytes, k) < 128

RECURSIVE Utf8ValidFrom(_, _)
Utf8ValidFrom(bytes, i) ==
    IF i >= Len(bytes) THEN TRUE
    ELSE IF At(bytes, i) < 128 THEN Utf8ValidFrom(bytes, AsciiRunEnd(bytes, i))
    ELSE LET c == Utf8Chunk(bytes, i)
         IN  c.valid /\ Utf8ValidFrom(bytes, c.next)

\* The error of String::from_utf8 (mapped to AuthFailed by its caller)
FromUtf8Error == SocksError("FromUtf8Error", 0, "")

\* String::from_utf8(bytes.to_vec()): the same bytes, or an error
String_from_utf8(bytes) ==
    IF Utf8ValidFrom(bytes, 0) THEN Ok(bytes) ELSE Err(FromUtf8Error)

\* U+FFFD REPLACEMENT CHARACTER in UTF-8
Replacement == <<239, 191, 189>>

RECURSIVE Utf8LossyFrom(_, _)
Utf8LossyFrom(bytes, i) ==
    IF i >= Len(bytes) THEN <<>>
    ELSE IF At(bytes, i) < 128
    THEN LET j == AsciiRunEnd(bytes, i)
         IN  Slice(bytes, i, j) \o Utf8LossyFrom(bytes, j)
    ELSE LET c == Utf8Chunk(bytes, i)
         IN  (IF c.valid THEN Slice(bytes, i, c.next) ELSE Replacement)
                 \o Utf8LossyFrom(bytes, c.next)

\* String::from_utf8_lossy(bytes).to_string(): each maximal invalid sequence
\* replaced by U+FFFD
String_from_utf8_lossy(bytes) == Utf8LossyFrom(bytes, 0)

---------------------------------------------------------------------------
(* Authentication methods (src/src/msg/method.rs).                         *)

\* FixedMethod is repr(u8): a value of the enum is its discriminant
NoAuth == 0
GssApi == 1
UsePass == 2
NoAcceptable == 255

\* The three variants of Method; equality is the derived, structural one
Fixed(f) == [variant |-> "Fixed", b |-> f]
IanaAssigned(b) == [variant |-> "IanaAssigned", b |-> b]
Private(b) == [variant |-> "Private", b |-> b]

FixedMethod_to_u8(f) == f

Method_to_u8(m) ==
    CASE m.variant = "Fixed" -> FixedMethod_to_u8(m.b)
      [] m.variant = "IanaAssigned" -> m.b
      [] m.variant = "Private" -> m.b

\* A faulty from_u8 whose private range runs to 0xFF
Method_from_u8_private_to_ff(byte) ==
    CASE byte = 0 -> Ok(Fixed(NoAuth))
      [] byte = 1 -> Ok(Fixed(GssApi))
      [] byte = 2 -> Ok(Fixed(UsePass))
      [] byte >= 3 /\ byte <= 127 -> Ok(IanaAssigned(byte))
      [] byte >= 128 /\ byte <= 255 -> Ok(Private(byte))

Method_from_u8(byte) ==
    CASE byte = 0 -> Ok(Fixed(NoAuth))
      [] byte = 1 -> Ok(Fixed(GssApi))
      [] byte = 2 -> Ok(Fixed(UsePass))
      [] byte = 255 -> Ok(Fixed(NoAcceptable))
      [] byte >= 3 /\ byte <= 127 -> Ok(IanaAssigned(byte))
      [] byte >= 128 /\ byte <= 254 -> Ok(Private(byte))

\* #[derive(PartialEq)] on Method: the same variant with the same payload
Method_eq(m1, m2) == m1.variant = m2.variant /\ m1.b = m2.b

\* methods.contains(&m)
Contains(methods, m) == \E i \in 1..Len(methods) : methods[i] = m

---------------------------------------------------------------------------
(* Handshake messages (src/src/msg/message.rs).                            *)

\* The methods of bytes[2..2 + nmethods], pushed in order; the ? on from_u8
\* returns the first error
RECURSIVE PushMethods(_, _)
PushMethods(bytes, methods) ==
    IF bytes = <<>> THEN Ok(methods)
    ELSE LET r == Method_from_u8(Head(bytes))
         IN  IF r.tag = "Ok"
             THEN PushMethods(Tail(bytes), Append(methods, r.val))
             ELSE r

\* A faulty decoder that checks the version byte before the length
VersionMessage_try_from_version_first(bytes) ==
    IF Len(bytes) >= 1 /\ At(bytes, 0) # 5 THEN Err(UnsupportedVersion(At(bytes, 0)))
    ELSE IF Len(bytes) < 2 THEN Err(VersionMessageTooShort)
    ELSE LET nmethods == At(bytes, 1)
         IN  IF Len(bytes) < 2 + nmethods
             THEN Err(IncompleteVersionMessage)
             ELSE LET ms == PushMethods(Slice(bytes, 2, 2 + nmethods), <<>>)
                  IN  IF ms.tag = "Ok"
                      THEN Ok([ver |-> At(bytes, 0), methods |-> ms.val])
                      ELSE ms

VersionMessage_try_from(bytes) ==
    IF Len(bytes) < 2 THEN Err(VersionMessageTooShort)
    ELSE LET ver == At(bytes, 0)
         IN  IF ver # 5 THEN Err(UnsupportedVersion(ver))
             ELSE LET nmethods == At(bytes, 1)
                  IN  IF Len(bytes) < 2 + nmethods
                      THEN Err(IncompleteVersionMessage)
                      ELSE LET ms == PushMethods(Slice(bytes, 2, 2 + nmethods), <<>>)
                           IN  IF ms.tag = "Ok"
                               THEN Ok([ver |-> ver, methods |-> ms.val])
                               ELSE ms

MethodSelection_new(method) == [ver |-> 5, method |-> method]

MethodSelection_to_bytes(sel) == <<sel.ver, Method_to_u8(sel.method)>>

---------------------------------------------------------------------------
(* Username/password sub-negotiation (src/src/auth).                       *)

\* A faulty decoder that checks the length of the password before it
\* validates the username
AuthRequest_try_from_lengths_first(bytes) ==
    IF Len(bytes) < 2 THEN Err(AuthMessageTooShort)
    ELSE LET ver == At(bytes, 0)
         IN  IF ver # 1 THEN Err(UnsupportedAuthVersion(ver))
             ELSE LET ulen == At(bytes, 1)
                  IN  IF Len(bytes) < 2 + ulen + 1
                      THEN Err(AuthFailed("truncated before username"))
                      ELSE LET uname == String_from_utf8(Slice(bytes, 2, 2 + ulen))
                               plen_index == 2 + ulen
                               plen == At(bytes, plen_index)
                           IN  IF Len(bytes) < plen_index + 1 + plen
                               THEN Err(AuthFailed("truncated before password"))
                               ELSE IF uname.tag # "Ok"
                               THEN Err(AuthFailed("invalid UTF-8 in username"))
                               ELSE LET passwd == String_from_utf8(
                                            Slice(bytes, plen_index + 1, plen_index + 1 + plen))
                                    IN  IF passwd.tag # "Ok"
                                        THEN Err(AuthFailed("invalid UTF-8 in password"))
                                        ELSE Ok([ver |-> ver, uname |-> uname.val,
                                                 passwd |-> passwd.val])

AuthRequest_try_from(bytes) ==
    IF Len(bytes) < 2 THEN Err(AuthMessageTooShort)
    ELSE LET ver == At(bytes, 0)
         IN  IF ver # 1 THEN Err(UnsupportedAuthVersion(ver))
             ELSE LET ulen == At(bytes, 1)
                  IN  IF Len(bytes) < 2 + ulen + 1
                      THEN Err(AuthFailed("truncated before username"))
                      ELSE LET uname == String_from_utf8(Slice(bytes, 2, 2 + ulen))
                               plen_index == 2 + ulen
                               plen == At(bytes, plen_index)
                           IN  IF uname.tag # "Ok"
                               THEN Err(AuthFailed("invalid UTF-8 in username"))
                               ELSE IF Len(bytes) < plen_index + 1 + plen
                               THEN Err(AuthFailed("truncated before password"))
                               ELSE LET passwd == String_from_utf8(
                                            Slice(bytes, plen_index + 1, plen_index + 1 + plen))
                                    IN  IF passwd.tag # "Ok"
                                        THEN Err(AuthFailed("invalid UTF-8 in password"))
                                        ELSE Ok([ver |-> ver, uname |-> uname.val,
                                                 passwd |-> passwd.val])

\* AuthStatus is repr(u8)
AuthStatus_as_u8(status) ==
    CASE status = "Success" -> 0
      [] status = "Failure" -> 1

AuthReply_new(status) == [ver |-> 1, status |-> status]

AuthReply_to_bytes(reply) == <<reply.ver, AuthStatus_as_u8(reply.status)>>

\* A decoder that takes only 0x01 for Failure
AuthReply_try_from_only_one_fails(bytes) ==
    IF Len(bytes) # 2 THEN Err(AuthMessageTooShort)
    ELSE LET ver == At(bytes, 0)
         IN  IF ver # 1 THEN Err(UnsupportedAuthVersion(ver))
             ELSE Ok([ver |-> ver,
                      status |-> IF At(bytes, 1) = 1 THEN "Failure" ELSE "Success"])

AuthReply_try_from(bytes) ==
    IF Len(bytes) # 2 THEN Err(AuthMessageTooShort)
    ELSE LET ver == At(bytes, 0)
         IN  IF ver # 1 THEN Err(UnsupportedAuthVersion(ver))
             ELSE Ok([ver |-> ver,
                      status |-> IF At(bytes, 1) = 0 THEN "Success" ELSE "Failure"])

---------------------------------------------------------------------------
(* Addresses (src/src/parse.rs, ATYP of src/src/lib.rs).                   *)

Some(v) == [tag |-> "Some", val |-> v]
None == [tag |-> "None"]

ATYP_as_u8(atyp) ==
    CASE atyp = "V4" -> 1
      [] atyp = "DomainName" -> 3
      [] atyp = "V6" -> 4

\* u16::from_be_bytes([hi, lo]) and port.to_be_bytes()
u16_from_be_bytes(hi, lo) == hi * 256 + lo
\* A faulty encoder that writes the port with to_le_bytes
u16_to_le_bytes(x) == <<x % 256, x \div 256>>

\* port.to_be_bytes()
u16_to_be_bytes(x) == <<x \div 256, x % 256>>

\* Ipv4Addr::new(a, b, c, d) and Ipv4Addr::octets
Ipv4Addr_new(a, b, c, d) == <<a, b, c, d>>
Ipv4Addr_octets(ip) == ip

\* Ipv6Addr::new of eight 16-bit segments and Ipv6Addr::octets
Ipv6Addr_new(s0, s1, s2, s3, s4, s5, s6, s7) == <<s0, s1, s2, s3, s4, s5, s6, s7>>
RECURSIVE Ipv6Addr_octets(_)
Ipv6Addr_octets(ip) ==
    IF ip = <<>> THEN <<>>
    ELSE u16_to_be_bytes(Head(ip)) \o Ipv6Addr_octets(Tail(ip))

\* The three variants of AddrPort
AddrPort_V4(ip, port) == [variant |-> "V4", host |-> ip, port |-> port]
AddrPort_V6(ip, port) == [variant |-> "V6", host |-> ip, port |-> port]
AddrPort_Domain(name, port) == [variant |-> "Domain", host |-> name, port |-> port]

\* ((buf[i] as u16) << 8) | buf[i + 1] as u16
Segment(buf, i) == At(buf, i) * 256 + At(buf, i + 1)

Parse_parse_ip_port(buf, atyp) ==
    CASE atyp = 1 ->
            IF Len(buf) < 6 THEN None
            ELSE Some(<<AddrPort_V4(Ipv4Addr_new(At(buf, 0), At(buf, 1), At(buf, 2), At(buf, 3)),
                                    u16_from_be_bytes(At(buf, 4), At(buf, 5))), 6>>)
      [] atyp = 4 ->
            IF Len(buf) < 18 THEN None
            ELSE Some(<<AddrPort_V6(Ipv6Addr_new(Segment(buf, 0), Segment(buf, 2),
                                                 Segment(buf, 4), Segment(buf, 6),
                                                 Segment(buf, 8), Segment(buf, 10),
                                                 Segment(buf, 12), Segment(buf, 14)),
                                    u16_from_be_bytes(At(buf, 16), At(buf, 17))), 18>>)
      [] OTHER -> None

\* The address bytes both to_bytes functions append after the 4-byte header
AddrPort_to_bytes(a) ==
    CASE a.variant = "V4" -> Ipv4Addr_octets(a.host) \o u16_to_be_bytes(a.port)
      [] a.variant = "V6" -> Ipv6Addr_octets(a.host) \o u16_to_be_bytes(a.port)
      [] a.variant = "Domain" ->
            <<Len(a.host) % 256>> \o a.host \o u16_to_be_bytes(a.port)

---------------------------------------------------------------------------
(* Connection request and reply (src/src/conn).                            *)

CMD_as_u8(cmd) ==
    CASE cmd = "Connect" -> 1
      [] cmd = "Bind" -> 2
      [] cmd = "UdpAssociate" -> 3

ConnRequest_new(ver, cmd, rsv, atyp, dst) ==
    [ver |-> ver, cmd |-> cmd, rsv |-> rsv, atyp |-> atyp, dst |-> dst]

ConnRequest_to_bytes(req) ==
    <<req.ver, CMD_as_u8(req.cmd), req.rsv, ATYP_as_u8(req.atyp)>>
        \o AddrPort_to_bytes(req.dst)

\* The match on atyp of ConnRequest::try_from: the destination, an error,
\* or the panic of buf[4] on a 4-byte buffer
ConnRequest_dst(buf, atyp) ==
    CASE atyp = "V4" ->
            LET r == Parse_parse_ip_port(Slice(buf, 4, Len(buf)), 1)
            IN  IF r.tag = "None" THEN Err(ConnRequestTooShort)
                ELSE IF r.val[1].variant = "V4"
                THEN Ok(AddrPort_V4(r.val[1].host, r.val[1].port))
                ELSE Err(InvalidAddressType(1))
      [] atyp = "V6" ->
            LET r == Parse_parse_ip_port(Slice(buf, 4, Len(buf)), 4)
            IN  IF r.tag = "None" THEN Err(ConnRequestTooShort)
                ELSE IF r.val[1].variant = "V6"
                THEN Ok(AddrPort_V6(r.val[1].host, r.val[1].port))
                ELSE Err(InvalidAddressType(4))
      [] atyp = "DomainName" ->
            IF Len(buf) < 5 THEN Panic
            ELSE LET len == At(buf, 4)
                 IN  IF Len(buf) < 5 + len + 2 THEN Err(InvalidDomain)
                     ELSE Ok(AddrPort_Domain(
                                 String_from_utf8_lossy(Slice(buf, 5, 5 + len)),
                                 u16_from_be_bytes(At(buf, 5 + len), At(buf, 5 + len + 1))))

\* A decoder that rejects a reserved byte other than 0x00
ConnRequest_try_from_rsv_checked(buf) ==
    IF Len(buf) < 4 THEN Err(ConnRequestTooShort)
    ELSE LET ver == At(buf, 0)
             rsv == At(buf, 2)
         IN  IF At(buf, 1) \notin {1, 2, 3} THEN Err(UnsupportedCommand(At(buf, 1)))
             ELSE IF rsv # 0 THEN Err(ConnRequestTooShort)
             ELSE IF At(buf, 3) \notin {1, 3, 4} THEN Err(InvalidAddressType(At(buf, 3)))
             ELSE LET cmd == CASE At(buf, 1) = 1 -> "Connect"
                               [] At(buf, 1) = 2 -> "Bind"
                               [] At(buf, 1) = 3 -> "UdpAssociate"
                      atyp == CASE At(buf, 3) = 1 -> "V4"
                                [] At(buf, 3) = 3 -> "DomainName"
                                [] At(buf, 3) = 4 -> "V6"
                      dst == ConnRequest_dst(buf, atyp)
                  IN  IF dst.tag = "Ok"
                      THEN Ok(ConnRequest_new(ver, cmd, rsv, atyp, dst.val))
                      ELSE dst

ConnRequest_try_from(buf) ==
    IF Len(buf) < 4 THEN Err(ConnRequestTooShort)
    ELSE LET ver == At(buf, 0)
             rsv == At(buf, 2)
         IN  IF At(buf, 1) \notin {1, 2, 3} THEN Err(UnsupportedCommand(At(buf, 1)))
             ELSE IF At(buf, 3) \notin {1, 3, 4} THEN Err(InvalidAddressType(At(buf, 3)))
             ELSE LET cmd == CASE At(buf, 1) = 1 -> "Connect"
                               [] At(buf, 1) = 2 -> "Bind"
                               [] At(buf, 1) = 3 -> "UdpAssociate"
                      atyp == CASE At(buf, 3) = 1 -> "V4"
                                [] At(buf, 3) = 3 -> "DomainName"
                                [] At(buf, 3) = 4 -> "V6"
                      dst == ConnRequest_dst(buf, atyp)
                  IN  IF dst.tag = "Ok"
                      THEN Ok(ConnRequest_new(ver, cmd, rsv, atyp, dst.val))
                      ELSE dst

\* Rep is repr(u8)
Rep_as_u8(rep) ==
    CASE rep = "Succeeded" -> 0
      [] rep = "GeneralFailure" -> 1
      [] rep = "ConnectionNotAllowed" -> 2
      [] rep = "NetworkUnreachable" -> 3
      [] rep = "HostUnreachable" -> 4
      [] rep = "ConnectionRefused" -> 5
      [] rep = "TTLExpired" -> 6
      [] rep = "CommandNotSupported" -> 7
      [] rep = "AddressTypeNotSupported" -> 8

ConnReply_new(ver, rep, rsv, atyp, bnd) ==
    [ver |-> ver, rep |-> rep, rsv |-> rsv, atyp |-> atyp, bnd |-> bnd]

ConnReply_to_bytes(reply) ==
    <<reply.ver, Rep_as_u8(reply.rep), reply.rsv, ATYP_as_u8(reply.atyp)>>
        \o AddrPort_to_bytes(reply.bnd)

\* The match on buf[1] of both decoders of ConnReply
Rep_of_u8(b) ==
    CASE b = 0 -> "Succeeded"
      [] b = 1 -> "GeneralFailure"
      [] b = 2 -> "ConnectionNotAllowed"
      [] b = 3 -> "NetworkUnreachable"
      [] b = 4 -> "HostUnreachable"
      [] b = 5 -> "ConnectionRefused"
      [] b = 6 -> "TTLExpired"
      [] b = 7 -> "CommandNotSupported"
      [] b = 8 -> "AddressTypeNotSupported"

\* The match on buf[3] of the decoders
ATYP_of_u8(b) ==
    CASE b = 1 -> "V4"
      [] b = 3 -> "DomainName"
      [] b = 4 -> "V6"

\* An anyhow! error of ConnReply::try_from: its message and the number
\* formatted into it
Anyhow(msg, n) == SocksError("anyhow", n, msg)

\* The match on atyp of ConnReply::from_bytes: Some(bnd), None, or the
\* panic of buf[4] on a 4-byte buffer
ConnReply_from_bytes_bnd(buf, atyp) ==
    CASE atyp = "V4" ->
            LET r == Parse_parse_ip_port(Slice(buf, 4, Len(buf)), 1)
            IN  IF r.tag = "None" THEN None
                ELSE IF r.val[1].variant = "V4"
                THEN Some(AddrPort_V4(r.val[1].host, r.val[1].port))
                ELSE None
      [] atyp = "V6" ->
            LET r == Parse_parse_ip_port(Slice(buf, 4, Len(buf)), 4)
            IN  IF r.tag = "None" THEN None
                ELSE IF r.val[1].variant = "V6"
                THEN Some(AddrPort_V6(r.val[1].host, r.val[1].port))
                ELSE None
      [] atyp = "DomainName" ->
            IF Len(buf) < 5 THEN Panic
            ELSE LET len == At(buf, 4)
                 IN  IF Len(buf) < 5 + len + 2 THEN None
                     ELSE Some(AddrPort_Domain(
                                 String_from_utf8_lossy(Slice(buf, 5, 5 + len)),
                                 u16_from_be_bytes(At(buf, 5 + len), At(buf, 5 + len + 1))))

ConnReply_from_bytes(buf) ==
    IF Len(buf) < 4 THEN None
    ELSE IF At(buf, 1) \notin 0..8 THEN None
    ELSE IF At(buf, 3) \notin {1, 3, 4} THEN None
    ELSE LET atyp == ATYP_of_u8(At(buf, 3))
             bnd == ConnReply_from_bytes_bnd(buf, atyp)
         IN  IF bnd.tag = "Some"
             THEN Some(ConnReply_new(At(buf, 0), Rep_of_u8(At(buf, 1)), At(buf, 2),
                                     atyp, bnd.val))
             ELSE bnd

\* The match on atyp of ConnReply::try_from
ConnReply_try_from_bnd(buf, atyp) ==
    CASE atyp = "V4" ->
            LET r == Parse_parse_ip_port(Slice(buf, 4, Len(buf)), 1)
            IN  IF r.tag = "None" THEN Err(Anyhow("Cannot parse input", 0))
                ELSE IF r.val[1].variant = "V4"
                THEN Ok(AddrPort_V4(r.val[1].host, r.val[1].port))
                ELSE Err(Anyhow("Invalid V4", 0))
      [] atyp = "V6" ->
            LET r == Parse_parse_ip_port(Slice(buf, 4, Len(buf)), 4)
            IN  IF r.tag = "None" THEN Err(Anyhow("Cannot parse input", 0))
                ELSE IF r.val[1].variant = "V6"
                THEN Ok(AddrPort_V6(r.val[1].host, r.val[1].port))
                ELSE Err(Anyhow("Invalid V6", 0))
      [] atyp = "DomainName" ->
            IF Len(buf) < 5 THEN Panic
            ELSE LET len == At(buf, 4)
                 IN  IF Len(buf) < 5 + len + 2
                     THEN Err(Anyhow("Size for DomainName is too short", Len(buf)))
                     ELSE Ok(AddrPort_Domain(
                                 String_from_utf8_lossy(Slice(buf, 5, 5 + len)),
                                 u16_from_be_bytes(At(buf, 5 + len), At(buf, 5 + len + 1))))

ConnReply_try_from(buf) ==
    IF Len(buf) < 4 THEN Err(Anyhow("Initial lenght cannot be smaller than 4", 0))
    ELSE IF At(buf, 1) \notin 0..8 THEN Err(Anyhow("Invalid value for REP", At(buf, 1)))
    ELSE IF At(buf, 3) \notin {1, 3, 4} THEN Err(Anyhow("Invalid value for ATYP", At(buf, 3)))
    ELSE LET atyp == ATYP_of_u8(At(buf, 3))
             bnd == ConnReply_try_from_bnd(buf, atyp)
         IN  IF bnd.tag = "Ok"
             THEN Ok(ConnReply_new(At(buf, 0), Rep_of_u8(At(buf, 1)), At(buf, 2),
                                   atyp, bnd.val))
             ELSE bnd

---------------------------------------------------------------------------
(* The state: the server's configuration and, per accepted connection, the *)
(* position of its handle_client task and what the task has done so far.   *)

VARIABLES
    server,     \* the Socks5 value: allow_no_auth, userpass_validator,
                \* whether it has been shared (Arc::new) for accepting, the
                \* error of a failed accept, and what main has returned, if
                \* it has
    conn,       \* connection id -> the state of its handle_client task
    call        \* a call of one codec function on its own: the function,
                \* its input and, once it has returned, its output

vars == <<server, conn, call>>

\* No codec function is being called on its own
NoCall == [fn |-> "", input |-> <<>>, output |-> None, back |-> None]

\* The ids of the connections the server accepts: one handle_client task is
\* followed from accept to its end
ConnIds == {1}

\* The read buffer of every read_* helper: let mut buf = [0u8; 512]
BufSize == 512

\* A credential validator Fn(&str, &str) -> bool is modelled by the set of
\* the (username, password) pairs it returns true for.
validator_call(validator, uname, passwd) == <<uname, passwd>> \in validator

Admin == <<97>>
EmptyOrAdmin == {<<Admin, Admin>>, <<<<>>, <<>>>>}
Validators == {EmptyOrAdmin}

---------------------------------------------------------------------------
(* What the client's reads are drawn from: prefixes of messages of the     *)
(* wire format with every field varied, with and without a trailing byte   *)
(* (after the version messages of at most one method).                     *)

MethodBytes == {0, 2, 128}
\* A version message followed by more bytes than the read buffer holds
OversizedVersion == <<5, 1, 2>> \o [i \in 1..600 |-> 0]
VersionInputs ==
    LET msgs == {<<ver, Len(ms)>> \o ms :
                    ver \in {4, 5}, ms \in SeqsUpTo(MethodBytes, MaxMethods)}
    IN  UNION {Prefixes(m) : m \in msgs} \cup {m \o <<0>> : m \in {x \in msgs : Len(x) <= 3}}
            \cup {OversizedVersion}

CredBytes == {97, 195, 169}
Passwords == {<<>>, <<97>>, <<255>>, <<195, 169>>}
\* An AuthRequest followed by more bytes than the read buffer holds
OversizedAuth == <<1, 1, 97, 1, 97>> \o [i \in 1..600 |-> 0]
AuthInputs ==
    LET msgs == {<<ver, Len(u)>> \o u \o <<Len(p)>> \o p :
                    ver \in {1}, u \in SeqsUpTo(CredBytes, MaxCredLen), p \in Passwords}
    IN  UNION {Prefixes(m) : m \in msgs}
            \cup {<<5, 1, 97, 1, 97>>, <<1, 1, 97, 1, 97, 0>>, OversizedAuth}

DomainBytes == {97, 255}
V4Body == <<127, 0, 0, 1, 31, 144>>
V6Body == <<0, 0, 0, 0, 0, 0, 0, 0, 0, 0, 0, 0, 0, 0, 0, 1, 0, 80>>
Bodies(atyp) ==
    CASE atyp = 1 -> {V4Body}
      [] atyp = 4 -> {V6Body}
      [] atyp = 3 -> {<<Len(n)>> \o n \o <<0, 80>> : n \in SeqsUpTo(DomainBytes, MaxDomainLen)}
ConnInputs ==
    LET msgs == UNION {{<<5, cmd, 0, atyp>> \o b : cmd \in {1, 2, 3}, b \in Bodies(atyp)} :
                          atyp \in {1, 3, 4}}
        odd == {<<4, 1, 0, 1>> \o V4Body, <<5, 1, 7, 1>> \o V4Body,
                <<5, 9, 0, 1>> \o V4Body, <<5, 1, 0, 2>> \o V4Body,
                <<5, 9, 0, 2>> \o V4Body, <<5, 1, 0, 1>> \o V4Body \o <<0>>}
    IN  UNION {Prefixes(m) : m \in msgs} \cup odd

\* stream.read(&mut buf).await: an I/O error, or the n <= 512 bytes read
ReadOutcomes(inputs) == {Err(Io)} \cup {Ok(Prefix(d, BufSize)) : d \in inputs}

\* stream.write_all(..).await: done, or an I/O error
WriteOutcomes == {Ok(<<>>), Err(Io)}

\* The local address of the outbound socket
LocalAddrs == {AddrPort_V4(Ipv4Addr_new(127, 0, 0, 1), 40000),
               AddrPort_V6(Ipv6Addr_new(0, 0, 0, 0, 0, 0, 0, 1), 40000)}

\* TcpStream::connect(..).await followed by target.local_addr(): the connect
\* fails, or succeeds and local_addr fails, or both succeed
ConnectOutcomes ==
    {[connected |-> FALSE, local_addr |-> Err(Io)],
     [connected |-> TRUE, local_addr |-> Err(Io)]}
        \cup {[connected |-> TRUE, local_addr |-> Ok(a)] : a \in LocalAddrs}

---------------------------------------------------------------------------
(* The trace of transport operations of a connection.                      *)

ReadOp(phase, r) ==
    [op |-> "read", phase |-> phase, ok |-> (r.tag = "Ok"),
     bytes |-> IF r.tag = "Ok" THEN r.val ELSE <<>>]

WriteOp(phase, w, bytes) ==
    [op |-> "write", phase |-> phase, ok |-> (w.tag = "Ok"), bytes |-> bytes]

OtherOp(op, ok) == [op |-> op, phase |-> "", ok |-> ok, bytes |-> <<>>]

\* A freshly accepted connection, at the start of handle_client
NewConn ==
    [pc |-> "read_version",
     ops |-> <<>>,
     version_msg |-> None,
     selected |-> Fixed(NoAcceptable),
     auth_req |-> None,
     validated |-> <<>>,
     auth_status |-> None,
     auth_result |-> None,
     conn_req |-> None,
     reply |-> None,
     target |-> None,
     result |-> None,
     open |-> TRUE]

---------------------------------------------------------------------------
(* The protocol helpers of Socks5 (src/src/lib.rs), as functions of the    *)
(* outcome of their one transport operation.                               *)

read_version_message(r) ==
    IF r.tag = "Err" THEN Err(Io) ELSE VersionMessage_try_from(r.val)

read_auth_request(r) ==
    IF r.tag = "Err" THEN Err(Io) ELSE AuthRequest_try_from(r.val)

read_conn_request(r) ==
    IF r.tag = "Err" THEN Err(Io) ELSE ConnRequest_try_from(r.val)

\* The bytes each send_* helper hands to write_all
send_method_selection_bytes(method) ==
    MethodSelection_to_bytes(MethodSelection_new(method))

send_auth_reply_bytes(status) == AuthReply_to_bytes(AuthReply_new(status))

send_conn_reply_bytes(rep, atyp, addr) ==
    ConnReply_to_bytes(ConnReply_new(5, rep, 0, atyp, addr))

\* A faulty selection that offers user/pass without a validator
selected_method_unconfigured(self, version_msg) ==
    IF self.allow_no_auth /\ Contains(version_msg.methods, Fixed(NoAuth))
    THEN Fixed(NoAuth)
    ELSE IF Contains(version_msg.methods, Fixed(UsePass))
    THEN Fixed(UsePass)
    ELSE Fixed(NoAcceptable)

\* A faulty selection that follows the client's order of preference
RECURSIVE selected_method_client_order(_, _)
selected_method_client_order(self, version_msg) ==
    IF version_msg.methods = <<>> THEN Fixed(NoAcceptable)
    ELSE LET m == Head(version_msg.methods)
         IN  IF m = Fixed(NoAuth) /\ self.allow_no_auth THEN m
             ELSE IF m = Fixed(UsePass) /\ self.userpass_validator.tag = "Some" THEN m
             ELSE selected_method_client_order(
                      self, [version_msg EXCEPT !.methods = Tail(@)])

\* The method selection of authenticate: no-auth first, then user/pass
selected_method(self, version_msg) ==
    IF self.allow_no_auth /\ Contains(version_msg.methods, Fixed(NoAuth))
    THEN Fixed(NoAuth)
    ELSE IF self.userpass_validator.tag = "Some"
            /\ Contains(version_msg.methods, Fixed(UsePass))
    THEN Fixed(UsePass)
    ELSE Fixed(NoAcceptable)

---------------------------------------------------------------------------
(* Server construction (Socks5::bind, allow_no_auth, allow_userpass) and   *)
(* the accept loop of main.                                                *)

\* TcpListener::bind(addr).await: the listener, or an I/O error
BindOutcomes == {Ok(<<>>), Err(Io)}

\* let mut server = Socks5::bind(..).await?; in main.  With the listener
\* bound, the Socks5 value has no method enabled.  On an error there is no
\* Socks5 value (the fields keep the values no code reads): main returns
\* the error at once, with no listener, no accept and no task
bind(listener) ==
    [allow_no_auth |-> FALSE, userpass_validator |-> None, accepting |-> FALSE,
     accept_err |-> None,
     main |-> IF listener.tag = "Ok" THEN None ELSE Some(Err(listener.err))]

Init ==
    /\ \E listener \in BindOutcomes : server = bind(listener)
    /\ conn = <<>>
    /\ call = NoCall

\* The builder calls take &mut self: they happen before the server is shared
allow_no_auth ==
    /\ server.main = None
    /\ ~server.accepting
    /\ server' = [server EXCEPT !.allow_no_auth = TRUE]
    /\ UNCHANGED <<conn, call>>

allow_userpass ==
    /\ server.main = None
    /\ ~server.accepting
    /\ \E validator \in Validators :
          server' = [server EXCEPT !.userpass_validator = Some(validator)]
    /\ UNCHANGED <<conn, call>>

\* info!(.., server.local_addr()?) after Arc::new(server), before the loop:
\* on an error main returns it before the first accept (on success nothing
\* changes but the log)
local_addr ==
    /\ server.main = None
    /\ ~server.accepting
    /\ server' = [server EXCEPT !.accepting = TRUE, !.main = Some(Err(Io))]
    /\ UNCHANGED <<conn, call>>

\* A spawned task that has not finished is dropped with the runtime: it is
\* cancelled at its pending await (pc stays at that await, which never
\* returns) and its stream is closed without a shutdown
Cancelled(s) ==
    IF s.pc \in {"done", "panicked"} THEN s
    ELSE [s EXCEPT !.open = FALSE]

\* The task of s was dropped before it finished
IsCancelled(s) == ~s.open /\ s.pc \notin {"done", "panicked"}

\* server.accept().await? in the loop of main: the spawn of handle_client
\* on the accepted stream, or, when the listener's accept fails, the exit
\* from the loop with the error; the spawned tasks are still running
accept_conn(ids) ==
    /\ server.main = None
    /\ server.accept_err = None
    /\ \/ /\ \E c \in ids \ DOMAIN conn :
                conn' = [d \in DOMAIN conn \cup {c} |->
                            IF d = c THEN NewConn ELSE conn[d]]
          /\ server' = [server EXCEPT !.accepting = TRUE]
       \/ /\ server' = [server EXCEPT !.accepting = TRUE, !.accept_err = Some(Io)]
          /\ UNCHANGED conn
    /\ UNCHANGED call

\* The body of main has returned and the runtime is being dropped: the
\* tasks are dropped one after another, while the worker threads go on
\* running the others
drop_runtime(c) ==
    /\ server.accept_err # None
    /\ server.main = None
    /\ conn[c].open
    /\ conn' = [conn EXCEPT ![c] = Cancelled(conn[c])]
    /\ UNCHANGED <<server, call>>

\* main returns the error of the accept once the runtime is dropped: no
\* task is left running
main_return ==
    /\ server.accept_err # None
    /\ server.main = None
    /\ \A c \in DOMAIN conn : ~conn[c].open
    /\ server' = [server EXCEPT !.main = Some(Err(server.accept_err.val))]
    /\ UNCHANGED <<conn, call>>

accept == accept_conn(ConnIds)

---------------------------------------------------------------------------
(* Socks5::authenticate, one action per await.                             *)

\* A step of connection c, whose task has not been dropped: its record is
\* replaced by next
Step(c, next) ==
    /\ conn[c].open
    /\ conn' = [conn EXCEPT ![c] = next]
    /\ UNCHANGED <<server, call>>

\* authenticate returns Err(e): handle_client goes on to shut the stream down
AuthFails(s, op, e) ==
    [s EXCEPT !.ops = Append(@, op), !.auth_result = Some(Err(e)), !.pc = "shutdown"]

\* let version_msg = Self::read_version_message(stream).await?; and the
\* choice of selected
authenticate_read_version_next(self, s, r) ==
    LET res == read_version_message(r)
        op == ReadOp("version", r)
    IN  IF res.tag = "Ok"
        THEN [s EXCEPT !.ops = Append(@, op),
                       !.version_msg = Some(res.val),
                       !.selected = selected_method(self, res.val),
                       !.pc = "send_selection"]
        ELSE AuthFails(s, op, res.err)

authenticate_read_version(c, inputs) ==
    /\ conn[c].pc = "read_version"
    /\ \E r \in ReadOutcomes(inputs) :
          Step(c, authenticate_read_version_next(server, conn[c], r))

\* A faulty authenticate whose match sends every method but NoAuth to the
\* username/password exchange
authenticate_send_selection_no_reject(s, w) ==
    LET op == WriteOp("selection", w, send_method_selection_bytes(s.selected))
    IN  IF w.tag = "Err" THEN AuthFails(s, op, Io)
        ELSE IF s.selected = Fixed(NoAuth)
        THEN [s EXCEPT !.ops = Append(@, op),
                       !.auth_result = Some(Ok(<<>>)),
                       !.pc = "read_conn"]
        ELSE [s EXCEPT !.ops = Append(@, op), !.pc = "read_auth"]

\* A faulty authenticate that ignores the result of the selection write
authenticate_send_selection_unchecked(s, w) ==
    LET op == WriteOp("selection", w, send_method_selection_bytes(s.selected))
    IN  IF s.selected = Fixed(NoAuth)
        THEN [s EXCEPT !.ops = Append(@, op),
                       !.auth_result = Some(Ok(<<>>)),
                       !.pc = "read_conn"]
        ELSE IF s.selected = Fixed(UsePass)
        THEN [s EXCEPT !.ops = Append(@, op), !.pc = "read_auth"]
        ELSE AuthFails(s, op, AuthFailed("no acceptable method"))

\* A faulty authenticate that reports a rejected method list with the
\* reason of rejected credentials
authenticate_send_selection_same_reason(s, w) ==
    LET op == WriteOp("selection", w, send_method_selection_bytes(s.selected))
    IN  IF w.tag = "Err" THEN AuthFails(s, op, Io)
        ELSE IF s.selected = Fixed(NoAuth)
        THEN [s EXCEPT !.ops = Append(@, op),
                       !.auth_result = Some(Ok(<<>>)),
                       !.pc = "read_conn"]
        ELSE IF s.selected = Fixed(UsePass)
        THEN [s EXCEPT !.ops = Append(@, op), !.pc = "read_auth"]
        ELSE AuthFails(s, op, AuthFailed("invalid credentials"))

\* A faulty authenticate that runs the username/password exchange after
\* selecting NoAuth too
authenticate_send_selection_always_auth(s, w) ==
    LET op == WriteOp("selection", w, send_method_selection_bytes(s.selected))
    IN  IF w.tag = "Err" THEN AuthFails(s, op, Io)
        ELSE IF s.selected \in {Fixed(NoAuth), Fixed(UsePass)}
        THEN [s EXCEPT !.ops = Append(@, op), !.pc = "read_auth"]
        ELSE AuthFails(s, op, AuthFailed("no acceptable method"))

\* Self::send_method_selection(stream, selected).await?; and the match on
\* selected up to its next await
authenticate_send_selection_next(s, w) ==
    LET op == WriteOp("selection", w, send_method_selection_bytes(s.selected))
    IN  IF w.tag = "Err" THEN AuthFails(s, op, Io)
        ELSE IF s.selected = Fixed(NoAuth)
        THEN [s EXCEPT !.ops = Append(@, op),
                       !.auth_result = Some(Ok(<<>>)),
                       !.pc = "read_conn"]
        ELSE IF s.selected = Fixed(UsePass)
        THEN [s EXCEPT !.ops = Append(@, op), !.pc = "read_auth"]
        ELSE AuthFails(s, op, AuthFailed("no acceptable method"))

authenticate_send_selection(c) ==
    /\ conn[c].pc = "send_selection"
    /\ \E w \in WriteOutcomes : Step(c, authenticate_send_selection_next(conn[c], w))

\* A faulty authenticate that answers a malformed AuthRequest with a
\* failure reply
authenticate_read_auth_reply_on_malformed(self, s, r) ==
    LET res == read_auth_request(r)
        op == ReadOp("auth_request", r)
    IN  IF res.tag # "Ok"
        THEN [s EXCEPT !.ops = Append(@, op),
                       !.auth_status = Some("Failure"),
                       !.pc = "send_auth_reply"]
        ELSE LET valid == validator_call(self.userpass_validator.val,
                                         res.val.uname, res.val.passwd)
             IN  [s EXCEPT !.ops = Append(@, op),
                           !.auth_req = Some(res.val),
                           !.validated = Append(@, [uname |-> res.val.uname,
                                                    passwd |-> res.val.passwd,
                                                    valid |-> valid]),
                           !.auth_status = Some(IF valid THEN "Success" ELSE "Failure"),
                           !.pc = "send_auth_reply"]

\* let auth_req = Self::read_auth_request(stream).await?; the unwrap of the
\* validator and its call
authenticate_read_auth_next(self, s, r) ==
    LET res == read_auth_request(r)
        op == ReadOp("auth_request", r)
    IN  IF res.tag # "Ok" THEN AuthFails(s, op, res.err)
        ELSE IF self.userpass_validator.tag = "None"
        THEN [s EXCEPT !.ops = Append(@, op), !.auth_req = Some(res.val),
                       !.open = FALSE, !.pc = "panicked"]
        ELSE LET valid == validator_call(self.userpass_validator.val,
                                         res.val.uname, res.val.passwd)
             IN  [s EXCEPT !.ops = Append(@, op),
                           !.auth_req = Some(res.val),
                           !.validated = Append(@, [uname |-> res.val.uname,
                                                    passwd |-> res.val.passwd,
                                                    valid |-> valid]),
                           !.auth_status = Some(IF valid THEN "Success" ELSE "Failure"),
                           !.pc = "send_auth_reply"]

authenticate_read_auth(c, inputs) ==
    /\ conn[c].pc = "read_auth"
    /\ \E r \in ReadOutcomes(inputs) :
          Step(c, authenticate_read_auth_next(server, conn[c], r))

\* A faulty authenticate that returns Ok(()) after either reply
authenticate_send_auth_reply_always_ok(s, w) ==
    LET status == s.auth_status.val
        op == WriteOp("auth_reply", w, send_auth_reply_bytes(status))
    IN  IF w.tag = "Err" THEN AuthFails(s, op, Io)
        ELSE [s EXCEPT !.ops = Append(@, op),
                       !.auth_result = Some(Ok(<<>>)),
                       !.pc = "read_conn"]

\* A faulty authenticate that fails on rejected credentials without a reply
authenticate_send_auth_reply_silent_failure(s, w) ==
    LET status == s.auth_status.val
        op == WriteOp("auth_reply", w, send_auth_reply_bytes(status))
    IN  IF status = "Failure"
        THEN [s EXCEPT !.auth_result = Some(Err(AuthFailed("invalid credentials"))),
                       !.pc = "shutdown"]
        ELSE IF w.tag = "Err" THEN AuthFails(s, op, Io)
        ELSE [s EXCEPT !.ops = Append(@, op),
                       !.auth_result = Some(Ok(<<>>)),
                       !.pc = "read_conn"]

\* A faulty authenticate that asks again after rejected credentials
authenticate_send_auth_reply_retry(s, w) ==
    LET status == s.auth_status.val
        op == WriteOp("auth_reply", w, send_auth_reply_bytes(status))
    IN  IF w.tag = "Err" THEN AuthFails(s, op, Io)
        ELSE IF status = "Success"
        THEN [s EXCEPT !.ops = Append(@, op),
                       !.auth_result = Some(Ok(<<>>)),
                       !.pc = "read_conn"]
        ELSE [s EXCEPT !.ops = Append(@, op), !.pc = "read_auth"]

\* A faulty engine that follows the success reply with a ConnReply of its
\* own
authenticate_send_auth_reply_then_conn_reply(s, w) ==
    LET status == s.auth_status.val
        op == WriteOp("auth_reply", w, send_auth_reply_bytes(status))
        extra == WriteOp("conn_reply", w, <<5, 0, 0, 1, 0, 0, 0, 0, 0, 0>>)
    IN  IF w.tag = "Err" THEN AuthFails(s, op, Io)
        ELSE IF status = "Success"
        THEN [s EXCEPT !.ops = Append(Append(@, op), extra),
                       !.auth_result = Some(Ok(<<>>)),
                       !.pc = "read_conn"]
        ELSE AuthFails(s, op, AuthFailed("invalid credentials"))

\* Self::send_auth_reply(stream, status).await?; and the result
authenticate_send_auth_reply_next(s, w) ==
    LET status == s.auth_status.val
        op == WriteOp("auth_reply", w, send_auth_reply_bytes(status))
    IN  IF w.tag = "Err" THEN AuthFails(s, op, Io)
        ELSE IF status = "Success"
        THEN [s EXCEPT !.ops = Append(@, op),
                       !.auth_result = Some(Ok(<<>>)),
                       !.pc = "read_conn"]
        ELSE AuthFails(s, op, AuthFailed("invalid credentials"))

authenticate_send_auth_reply(c) ==
    /\ conn[c].pc = "send_auth_reply"
    /\ \E w \in WriteOutcomes : Step(c, authenticate_send_auth_reply_next(conn[c], w))

---------------------------------------------------------------------------
(* handle_client (examples/simple_server.rs) after authenticate, one       *)
(* action per await.                                                       *)

\* handle_client returns res and its stream is dropped
Returns(s, op, res) ==
    [s EXCEPT !.ops = Append(@, op), !.result = Some(res), !.open = FALSE, !.pc = "done"]

\* let _ = stream.shutdown().await; return Ok(());
handle_client_shutdown_next(s, ok) == Returns(s, OtherOp("shutdown", ok), Ok(<<>>))

handle_client_shutdown(c) ==
    /\ conn[c].pc = "shutdown"
    /\ \E ok \in BOOLEAN : Step(c, handle_client_shutdown_next(conn[c], ok))

\* A faulty handler that announces every bound address as IPv4
bnd_atyp_always_v4(bnd) == "V4"

\* The atyp handle_client derives from the bound address
bnd_atyp(bnd) ==
    CASE bnd.variant = "V4" -> "V4"
      [] bnd.variant = "V6" -> "V6"
      [] OTHER -> "DomainName"

\* A faulty handler that takes the Connect arm for every command
handle_client_read_conn_any_cmd(s, r) ==
    LET res == read_conn_request(r)
        op == ReadOp("conn_request", r)
    IN  CASE res.tag = "Panic" ->
                [s EXCEPT !.ops = Append(@, op), !.open = FALSE, !.pc = "panicked"]
          [] res.tag = "Err" ->
                [s EXCEPT !.ops = Append(@, op), !.conn_req = Some(res), !.pc = "shutdown"]
          [] OTHER ->
                [s EXCEPT !.ops = Append(@, op), !.conn_req = Some(res), !.pc = "connect"]

\* let req = match Socks5::read_conn_request(&mut stream).await { .. }; and
\* the match on req.cmd up to its next await
handle_client_read_conn_next(s, r) ==
    LET res == read_conn_request(r)
        op == ReadOp("conn_request", r)
    IN  CASE res.tag = "Panic" ->
                [s EXCEPT !.ops = Append(@, op), !.open = FALSE, !.pc = "panicked"]
          [] res.tag = "Err" ->
                [s EXCEPT !.ops = Append(@, op), !.conn_req = Some(res), !.pc = "shutdown"]
          [] res.tag = "Ok" /\ res.val.cmd = "Connect" ->
                [s EXCEPT !.ops = Append(@, op), !.conn_req = Some(res), !.pc = "connect"]
          [] OTHER ->
                [s EXCEPT !.ops = Append(@, op), !.conn_req = Some(res),
                          !.reply = Some([rep |-> "CommandNotSupported", atyp |-> "V4",
                                          addr |-> AddrPort_V4(Ipv4Addr_new(0, 0, 0, 0), 0)]),
                          !.pc = "send_conn_reply"]

handle_client_read_conn(c, inputs) ==
    /\ conn[c].pc = "read_conn"
    /\ \E r \in ReadOutcomes(inputs) : Step(c, handle_client_read_conn_next(conn[c], r))

\* let mut target = match req.dst { .. TcpStream::connect(..).await? };
\* let local_addr = target.local_addr()?; and the choice of bnd and atyp
handle_client_connect_next(s, o) ==
    IF ~o.connected
    THEN Returns(s, OtherOp("connect", FALSE), Err(Io))
    ELSE IF o.local_addr.tag = "Err"
    THEN [Returns(s, OtherOp("connect", TRUE), Err(Io)) EXCEPT !.target = Some(<<>>)]
    ELSE LET bnd == o.local_addr.val
         IN  [s EXCEPT !.ops = Append(@, OtherOp("connect", TRUE)),
                       !.target = Some(bnd),
                       !.reply = Some([rep |-> "Succeeded", atyp |-> bnd_atyp(bnd),
                                       addr |-> bnd]),
                       !.pc = "send_conn_reply"]

handle_client_connect(c) ==
    /\ conn[c].pc = "connect"
    /\ \E o \in ConnectOutcomes : Step(c, handle_client_connect_next(conn[c], o))

\* Socks5::send_conn_reply(&mut stream, rep, atyp, addr).await?; on either
\* arm of the match on req.cmd
handle_client_send_reply_next(s, w) ==
    LET reply == s.reply.val
        op == WriteOp("conn_reply", w,
                      send_conn_reply_bytes(reply.rep, reply.atyp, reply.addr))
    IN  IF w.tag = "Err" THEN Returns(s, op, Err(Io))
        ELSE IF s.conn_req.val.val.cmd = "Connect"
        THEN [s EXCEPT !.ops = Append(@, op), !.pc = "relay"]
        ELSE Returns(s, op, Ok(<<>>))

handle_client_send_reply(c) ==
    /\ conn[c].pc = "send_conn_reply"
    /\ \E w \in WriteOutcomes : Step(c, handle_client_send_reply_next(conn[c], w))

\* io::copy_bidirectional(&mut stream, &mut target).await, logged either way
handle_client_relay_next(s, ok) == Returns(s, OtherOp("relay", ok), Ok(<<>>))

handle_client_relay(c) ==
    /\ conn[c].pc = "relay"
    /\ \E ok \in BOOLEAN : Step(c, handle_client_relay_next(conn[c], ok))

---------------------------------------------------------------------------
(* The system: the server is configured, then accepts connections, each    *)
(* handled to its end.                                                     *)

Next ==
    \/ allow_no_auth
    \/ allow_userpass
    \/ local_addr
    \/ accept
    \/ \E c \in DOMAIN conn : drop_runtime(c)
    \/ main_return
    \/ \E c \in DOMAIN conn : authenticate_read_version(c, VersionInputs)
    \/ \E c \in DOMAIN conn : authenticate_send_selection(c)
    \/ \E c \in DOMAIN conn : authenticate_read_auth(c, AuthInputs)
    \/ \E c \in DOMAIN conn : authenticate_send_auth_reply(c)
    \/ \E c \in DOMAIN conn : handle_client_read_conn(c, ConnInputs)
    \/ \E c \in DOMAIN conn : handle_client_connect(c)
    \/ \E c \in DOMAIN conn : handle_client_send_reply(c)
    \/ \E c \in DOMAIN conn : handle_client_relay(c)
    \/ \E c \in DOMAIN conn : handle_client_shutdown(c)

Spec == Init /\ [][Next]_vars

---------------------------------------------------------------------------
(* Reading a connection's trace.                                           *)

IsOk(opt) == opt.tag = "Some" /\ opt.val.tag = "Ok"
IsErr(opt) == opt.tag = "Some" /\ opt.val.tag = "Err"

\* The operations of one kind and phase, in order
OpsOf(s, op, phase) == SelectSeq(s.ops, LAMBDA o : o.op = op /\ o.phase = phase)

HasOp(s, op, phase) == OpsOf(s, op, phase) # <<>>

\* The reads and writes on the client's stream, in order
Transport(s) == SelectSeq(s.ops, LAMBDA o : o.op \in {"read", "write"})

\* The bytes the client's version message / AuthRequest / ConnRequest read
\* returned (the empty buffer when there was no such read)
BytesRead(s, phase) ==
    IF HasOp(s, "read", phase) THEN OpsOf(s, "read", phase)[1].bytes ELSE <<>>

\* On the wire: VER = 5, NMETHODS, and method byte m among the NMETHODS
\* bytes that follow
Listed(vb, m) ==
    /\ Len(vb) >= 2
    /\ vb[1] = 5
    /\ Len(vb) >= 2 + vb[2]
    /\ \E i \in 3..(2 + vb[2]) : vb[i] = m

\* On the wire: the UNAME and PASSWD fields of VER ULEN UNAME PLEN PASSWD
WireUname(ab) == SubSeq(ab, 3, 2 + ab[2])
WirePasswd(ab) == SubSeq(ab, 4 + ab[2], 3 + ab[2] + ab[3 + ab[2]])

\* authenticate has returned Ok(()) / Err(_) on this connection
AuthSucceeded(s) == IsOk(s.auth_result)
AuthFailedOn(s) == IsErr(s.auth_result)

---------------------------------------------------------------------------
(* C1: authenticate returns success only if no-auth is allowed and the     *)
(* client's version message listed method 0x00, or a validator is          *)
(* configured, the version message listed 0x02, and the validator returned *)
(* true for the username and password carried by the bytes of that         *)
(* connection's AuthRequest.                                               *)

C1_NoAuthBypass ==
    \A c \in DOMAIN conn :
        LET s == conn[c]
            vb == BytesRead(s, "version")
            ab == BytesRead(s, "auth_request")
        IN  AuthSucceeded(s) =>
                \/ server.allow_no_auth /\ Listed(vb, 0)
                \/ /\ server.userpass_validator.tag = "Some"
                   /\ Listed(vb, 2)
                   /\ HasOp(s, "read", "auth_request")
                   /\ Len(ab) >= 3
                   /\ ab[1] = 1
                   /\ Len(ab) >= 3 + ab[2] + ab[3 + ab[2]]
                   /\ validator_call(server.userpass_validator.val,
                                     WireUname(ab), WirePasswd(ab))

\* authenticate has returned success after a username/password exchange
C1_Witness ==
    \E c \in DOMAIN conn :
        /\ AuthSucceeded(conn[c])
        /\ conn[c].selected = Fixed(UsePass)
        /\ HasOp(conn[c], "write", "auth_reply")

---------------------------------------------------------------------------
(* C2: a destination connection is opened only after authenticate returned *)
(* success and read_conn_request decoded a request whose command byte is   *)
(* CONNECT; after a failure of authenticate or of the ConnRequest decode   *)
(* the handler shuts the client stream down and returns, and no            *)
(* destination connection is opened on that connection.                    *)

\* handle_client has called TcpStream::connect, or is about to
ConnectIssued(s) == HasOp(s, "connect", "") \/ s.pc = "connect" \/ s.target.tag = "Some"

C2_DestinationOnlyAfterNegotiation ==
    \A c \in DOMAIN conn :
        LET s == conn[c]
            cb == BytesRead(s, "conn_request")
        IN  /\ ConnectIssued(s) =>
                /\ AuthSucceeded(s)
                /\ IsOk(s.conn_req)
                /\ Len(cb) >= 4 /\ cb[2] = 1
            /\ (AuthFailedOn(s) \/ IsErr(s.conn_req)) =>
                /\ ~ConnectIssued(s)
                /\ s.pc \in {"shutdown", "done"}
                /\ s.pc = "done" =>
                      /\ s.ops[Len(s.ops)].op = "shutdown"
                      /\ ~s.open
            /\ s.pc = "panicked" => ~ConnectIssued(s) /\ ~s.open

\* a connection ended by a ConnRequest that did not decode
C2_Witness ==
    \E c \in DOMAIN conn :
        /\ conn[c].pc = "done"
        /\ IsErr(conn[c].conn_req)
        /\ HasOp(conn[c], "shutdown", "")

---------------------------------------------------------------------------
(* C3: the method byte handed to the client is 0x00 if no-auth is allowed  *)
(* and 0x00 is listed in the version message; otherwise 0x02 if a          *)
(* validator is configured and 0x02 is listed; otherwise 0xFF.             *)

RuleByte(self, vb) ==
    IF self.allow_no_auth /\ Listed(vb, 0) THEN 0
    ELSE IF self.userpass_validator.tag = "Some" /\ Listed(vb, 2) THEN 2
    ELSE 255

C3_SelectionRule ==
    \A c \in DOMAIN conn :
        LET s == conn[c]
            vb == BytesRead(s, "version")
        IN  /\ s.version_msg.tag = "Some" =>
                Method_to_u8(s.selected) = RuleByte(server, vb)
            /\ \A i \in DOMAIN s.ops :
                  (s.ops[i].op = "write" /\ s.ops[i].phase = "selection") =>
                      s.ops[i].bytes = <<5, RuleByte(server, vb)>>

\* user/pass was written back although no-auth was listed too
C3_Witness ==
    \E c \in DOMAIN conn :
        /\ HasOp(conn[c], "write", "selection")
        /\ OpsOf(conn[c], "write", "selection")[1].bytes = <<5, 2>>
        /\ Listed(BytesRead(conn[c], "version"), 0)

---------------------------------------------------------------------------
(* C4: the selection depends only on the set of method bytes proposed:     *)
(* every version message listing the same set of bytes, in any order and   *)
(* with any repetition, gets the same selection; and with both methods     *)
(* enabled and both proposed NoAuth is selected wherever it is listed.     *)

MethodByteSet(version_msg) ==
    {Method_to_u8(version_msg.methods[i]) : i \in DOMAIN version_msg.methods}

\* The version messages of up to n methods over the bytes of set B
Rearrangements(B, n) == {<<5, Len(ms)>> \o ms : ms \in SeqsUpTo(B, n)}

C4_SelectionIgnoresOrder ==
    \A c \in DOMAIN conn :
        LET s == conn[c]
        IN  (s.pc = "send_selection") =>
              /\ \A other \in Rearrangements(MethodByteSet(s.version_msg.val), MaxMethods + 1) :
                    LET vm == VersionMessage_try_from(other)
                    IN  (vm.tag = "Ok" /\ MethodByteSet(vm.val) = MethodByteSet(s.version_msg.val))
                            => selected_method(server, vm.val) = s.selected
              /\ (/\ server.allow_no_auth
                  /\ server.userpass_validator.tag = "Some"
                  /\ {0, 2} \subseteq MethodByteSet(s.version_msg.val))
                     => s.selected = Fixed(NoAuth)

\* both methods enabled, the client lists UserPass before NoAuth
C4_Witness ==
    \E c \in DOMAIN conn :
        /\ conn[c].pc = "send_selection"
        /\ server.allow_no_auth
        /\ server.userpass_validator.tag = "Some"
        /\ conn[c].version_msg.val.methods = <<Fixed(UsePass), Fixed(NoAuth)>>
        /\ conn[c].selected = Fixed(NoAuth)

---------------------------------------------------------------------------
(* C5: when UserPass is selected and the AuthRequest decodes, the server   *)
(* writes AuthReply [0x01,0x00] and authenticate returns success if the    *)
(* validator returns true for the credentials on the wire, and writes      *)
(* [0x01,0x01] and returns the authentication-failed error if it returns   *)
(* false.  The reply is written before the result is returned; a write     *)
(* that the transport fails surfaces as the I/O error instead.             *)

IsErrWith(opt, e) == IsErr(opt) /\ opt.val.err = e

C5_AuthReplyThenResult ==
    \A c \in DOMAIN conn :
        LET s == conn[c]
            ab == BytesRead(s, "auth_request")
            replies == OpsOf(s, "write", "auth_reply")
        IN  (s.selected = Fixed(UsePass) /\ s.auth_req.tag = "Some") =>
                LET valid == validator_call(server.userpass_validator.val,
                                            WireUname(ab), WirePasswd(ab))
                IN  IF replies = <<>>
                    THEN s.auth_result.tag = "None" /\ s.pc = "send_auth_reply"
                    ELSE /\ Len(replies) = 1
                         /\ replies[1].bytes = <<1, IF valid THEN 0 ELSE 1>>
                         /\ s.auth_result.tag = "Some"
                         /\ (replies[1].ok /\ valid) => AuthSucceeded(s)
                         /\ (replies[1].ok /\ ~valid) =>
                               IsErrWith(s.auth_result, AuthFailed("invalid credentials"))
                         /\ ~replies[1].ok => IsErrWith(s.auth_result, Io)

\* the validator rejected the credentials, [0x01,0x01] was written and
\* authenticate returned the authentication-failed error
C5_Witness ==
    \E c \in DOMAIN conn :
        /\ conn[c].auth_req.tag = "Some"
        /\ OpsOf(conn[c], "write", "auth_reply") = <<WriteOp("auth_reply", Ok(<<>>), <<1, 1>>)>>
        /\ IsErrWith(conn[c].auth_result, AuthFailed("invalid credentials"))

---------------------------------------------------------------------------
(* C6: whenever the selection is NoAcceptable the server first writes the  *)
(* selection reply [0x05,0xFF], then fails the negotiation, and performs   *)
(* no further read on that connection: no AuthRequest and no ConnRequest   *)
(* is read.                                                                *)

C6_RejectedIsTerminal ==
    \A c \in DOMAIN conn :
        LET s == conn[c]
            t == Transport(s)
        IN  (s.version_msg.tag = "Some" /\ s.selected = Fixed(NoAcceptable)) =>
                IF s.pc = "send_selection"
                THEN s.auth_result.tag = "None" /\ Len(t) = 1
                ELSE /\ Len(t) = 2
                     /\ t[1].op = "read" /\ t[1].phase = "version"
                     /\ t[2].op = "write" /\ t[2].phase = "selection"
                     /\ t[2].bytes = <<5, 255>>
                     /\ AuthFailedOn(s)
                     /\ t[2].ok => IsErrWith(s.auth_result, AuthFailed("no acceptable method"))
                     /\ s.pc \in {"shutdown", "done"}
                     /\ ~HasOp(s, "read", "auth_request")
                     /\ ~HasOp(s, "read", "conn_request")

\* a rejected connection, handled to its end
C6_Witness ==
    \E c \in DOMAIN conn :
        /\ conn[c].pc = "done"
        /\ conn[c].selected = Fixed(NoAcceptable)
        /\ HasOp(conn[c], "write", "selection")
        /\ IsErrWith(conn[c].auth_result, AuthFailed("no acceptable method"))

---------------------------------------------------------------------------
(* C7: a malformed message skips its phase's reply.  If the version        *)
(* message does not decode no method selection is written; if the          *)
(* AuthRequest does not decode (bad version, too short, truncated, invalid *)
(* UTF-8) no AuthReply is written and the validator is not called.  A      *)
(* failure reply is written only after the validator rejected credentials. *)

WellFormedVersion(vb) == Len(vb) >= 2 /\ vb[1] = 5 /\ Len(vb) >= 2 + vb[2]

WellFormedAuth(ab) ==
    /\ Len(ab) >= 2
    /\ ab[1] = 1
    /\ Len(ab) >= 3 + ab[2]
    /\ Utf8ValidFrom(WireUname(ab), 0)
    /\ Len(ab) >= 3 + ab[2] + ab[3 + ab[2]]
    /\ Utf8ValidFrom(WirePasswd(ab), 0)

C7_MalformedSkipsReply ==
    \A c \in DOMAIN conn :
        LET s == conn[c]
            vb == BytesRead(s, "version")
            ab == BytesRead(s, "auth_request")
        IN  /\ (HasOp(s, "read", "version") /\ ~WellFormedVersion(vb)) =>
                Len(Transport(s)) = 1
            /\ (HasOp(s, "read", "auth_request") /\ ~WellFormedAuth(ab)) =>
                /\ ~HasOp(s, "write", "auth_reply")
                /\ s.validated = <<>>
                /\ Len(Transport(s)) = 3
            /\ \A i \in DOMAIN s.ops :
                  (s.ops[i].op = "write" /\ s.ops[i].phase = "auth_reply"
                       /\ s.ops[i].bytes # <<1, 0>>) =>
                      /\ WellFormedAuth(ab)
                      /\ s.validated = <<[uname |-> WireUname(ab),
                                          passwd |-> WirePasswd(ab),
                                          valid |-> FALSE]>>

\* an AuthRequest with invalid UTF-8 ended the connection without a reply
C7_Witness ==
    \E c \in DOMAIN conn :
        /\ conn[c].pc = "done"
        /\ HasOp(conn[c], "read", "auth_request")
        /\ OpsOf(conn[c], "read", "auth_request")[1].ok
        /\ Len(BytesRead(conn[c], "auth_request")) >= 5
        /\ ~WellFormedAuth(BytesRead(conn[c], "auth_request"))
        /\ ~HasOp(conn[c], "write", "auth_reply")

---------------------------------------------------------------------------
(* C8: the reads and writes on a connection form a prefix of               *)
(* read(version message), write(method selection), then read(AuthRequest), *)
(* write(AuthReply) only when UserPass was selected, then                  *)
(* read(ConnRequest), write(ConnReply).  An operation is issued only after *)
(* the one before it has completed, and a successful negotiation is        *)
(* followed by exactly one ConnRequest read.                               *)

PhaseOrder(s) ==
    <<<<"read", "version">>, <<"write", "selection">>>>
        \o (IF s.selected = Fixed(UsePass)
            THEN <<<<"read", "auth_request">>, <<"write", "auth_reply">>>>
            ELSE <<>>)
        \o <<<<"read", "conn_request">>, <<"write", "conn_reply">>>>

C8_PhaseOrdering ==
    \A c \in DOMAIN conn :
        LET s == conn[c]
            t == Transport(s)
            requests == OpsOf(s, "read", "conn_request")
        IN  /\ Len(t) <= Len(PhaseOrder(s))
            /\ \A i \in DOMAIN t :
                  /\ <<t[i].op, t[i].phase>> = PhaseOrder(s)[i]
                  /\ i > 1 => t[i - 1].ok
            /\ Len(requests) <= 1
            /\ requests # <<>> => AuthSucceeded(s)
            /\ (AuthSucceeded(s) /\ s.pc # "read_conn") => Len(requests) = 1

\* all six operations of a username/password connection, in order
C8_Witness ==
    \E c \in DOMAIN conn :
        /\ conn[c].selected = Fixed(UsePass)
        /\ Len(Transport(conn[c])) = 6
        /\ Transport(conn[c])[6].op = "write"
        /\ Transport(conn[c])[6].phase = "conn_reply"

---------------------------------------------------------------------------
(* C9: failures are terminal.  After a decode error or a transport error   *)
(* of a read or write in any phase the negotiation ends with that error:   *)
(* no later phase is entered and nothing more is read or written on the    *)
(* connection.  After rejected credentials no second AuthRequest is read.  *)
(* (The task that panics in ConnRequest::try_from ends at that read too.)  *)

Decode(phase, bytes) ==
    CASE phase = "version" -> VersionMessage_try_from(bytes)
      [] phase = "auth_request" -> AuthRequest_try_from(bytes)
      [] phase = "conn_request" -> ConnRequest_try_from(bytes)

\* the operation failed: the transport failed it, or what it read does not
\* decode
Failed(o) ==
    /\ o.op \in {"read", "write"}
    /\ \/ ~o.ok
       \/ o.op = "read" /\ Decode(o.phase, o.bytes).tag = "Err"

OriginatingError(o) == IF ~o.ok THEN Io ELSE Decode(o.phase, o.bytes).err

C9_FailuresAreTerminal ==
    \A c \in DOMAIN conn :
        LET s == conn[c]
        IN  /\ \A i \in DOMAIN s.ops :
                  Failed(s.ops[i]) =>
                      /\ i = Len(s.ops) \/ (i + 1 = Len(s.ops) /\ s.ops[i + 1].op = "shutdown")
                      /\ s.pc \in {"shutdown", "done"}
                      /\ s.ops[i].phase \in {"version", "selection", "auth_request", "auth_reply"}
                            => IsErrWith(s.auth_result, OriginatingError(s.ops[i]))
                      /\ s.ops[i].phase = "conn_request"
                            => IsErrWith(s.conn_req, OriginatingError(s.ops[i]))
                      /\ s.ops[i].phase = "conn_reply"
                            => IsErrWith(s.result, OriginatingError(s.ops[i]))
            /\ AuthFailedOn(s) =>
                  /\ s.pc \in {"shutdown", "done"}
                  /\ ~HasOp(s, "read", "conn_request")
                  /\ Len(OpsOf(s, "read", "auth_request")) <= 1
                  /\ s.ops[Len(s.ops)].op \in {"read", "write", "shutdown"}
            /\ s.pc = "panicked" =>
                  /\ s.ops[Len(s.ops)].op = "read"
                  /\ ~s.open

\* rejected credentials ended the connection after one AuthRequest
C9_Witness ==
    \E c \in DOMAIN conn :
        /\ conn[c].pc = "done"
        /\ conn[c].validated # <<>>
        /\ ~conn[c].validated[1].valid
        /\ IsErrWith(conn[c].auth_result, AuthFailed("invalid credentials"))
        /\ Len(OpsOf(conn[c], "read", "auth_request")) = 1

---------------------------------------------------------------------------
(* C10: every connection whose ConnRequest decoded gets exactly one        *)
(* ConnReply written to the client before it is closed, whatever the       *)
(* outcome of the destination connect and whatever the command.  (Stated   *)
(* for connections on which no operation of the client's stream failed.)   *)

C10_OneConnReply ==
    \A c \in DOMAIN conn :
        LET s == conn[c]
        IN  (/\ IsOk(s.conn_req)
             /\ ~s.open
             /\ \A i \in DOMAIN Transport(s) : Transport(s)[i].ok) =>
                Len(OpsOf(s, "write", "conn_reply")) = 1

---------------------------------------------------------------------------
(* The codec functions called on their own, each on inputs drawn from the  *)
(* bytes its checks look at: every length up to a bound, every field        *)
(* varied, well formed or not.                                             *)

Call(fn, input) == [fn |-> fn, input |-> input, output |-> None, back |-> None]

\* Method::from_u8 takes any byte
Bytes == 0..255

VersionCodecBytes == {0, 1, 2, 3, 4, 5, 128, 255}
VersionCodecInputs == SeqsUpTo(VersionCodecBytes, MaxMethods + 2) \cup VersionInputs

AuthCodecBytes == {0, 1, 2, 97, 195, 169}
AuthCodecInputs == SeqsUpTo(AuthCodecBytes, MaxCredLen + 3) \cup AuthInputs

\* Every header <<VER, CMD, RSV, ATYP>> over the values the decoder tells
\* apart, followed by every prefix of an address of each kind
ConnCodecInputs ==
    LET headers == {<<ver, cmd, rsv, atyp>> :
                        ver \in {4, 5}, cmd \in {0, 1, 2, 3, 4}, rsv \in {0, 7},
                        atyp \in {0, 1, 2, 3, 4, 5}}
        bodies == Bodies(1) \cup Bodies(3) \cup Bodies(4) \cup {<<2, 97>>, <<1, 97, 0, 80, 0>>}
    IN  UNION {Prefixes(h \o b) : h \in headers, b \in bodies}
            \cup {<<>>, <<5>>, <<5, 1>>, <<5, 1, 0>>, <<5, 9>>, <<5, 9, 0>>}
            \cup ConnInputs

\* Addresses a request or a reply can carry: IPv4 and IPv6 addresses and
\* ports at both ends of their ranges, and domain names (a Rust String, so
\* valid UTF-8) of 0, 1, 2, 255, 256 and 300 bytes
Ports == {0, 80, 8080, 65535}
AsciiName(n) == [i \in 1..n |-> 97]
DomainNames ==
    {<<>>, <<97>>, <<195, 169>>, AsciiName(255), <<195, 169>> \o AsciiName(253),
     AsciiName(256), AsciiName(300)}
Addresses ==
    {AddrPort_V4(ip, p) : ip \in {Ipv4Addr_new(0, 0, 0, 0), Ipv4Addr_new(127, 0, 0, 1),
                                   Ipv4Addr_new(255, 255, 255, 255)}, p \in Ports}
    \cup {AddrPort_V6(ip, p) : ip \in {Ipv6Addr_new(0, 0, 0, 0, 0, 0, 0, 1),
                                       Ipv6Addr_new(8193, 3512, 0, 0, 0, 0, 255, 65535),
                                       Ipv6Addr_new(65535, 65535, 65535, 65535,
                                                    65535, 65535, 65535, 65535)},
                               p \in Ports}
    \cup {AddrPort_Domain(name, p) : name \in DomainNames, p \in Ports}

\* The address-type tag of an address
ATYP_of(a) ==
    CASE a.variant = "V4" -> "V4"
      [] a.variant = "V6" -> "V6"
      [] a.variant = "Domain" -> "DomainName"

RequestValues ==
    {ConnRequest_new(5, cmd, 0, ATYP_of(a), a) :
        cmd \in {"Connect", "Bind", "UdpAssociate"}, a \in Addresses}
ReplyValues ==
    {ConnReply_new(5, rep, 0, ATYP_of(a), a) :
        rep \in {"Succeeded", "HostUnreachable", "AddressTypeNotSupported"}, a \in Addresses}

\* Every header <<VER, REP, RSV, ATYP>> over the values the reply decoders
\* tell apart, followed by every prefix of an address of each kind
ReplyCodecInputs ==
    LET headers == {<<ver, rep, rsv, atyp>> :
                        ver \in {4, 5}, rep \in {0, 1, 8, 9, 255}, rsv \in {0, 7},
                        atyp \in {0, 1, 2, 3, 4, 5}}
        bodies == Bodies(1) \cup Bodies(3) \cup Bodies(4) \cup {<<2, 97>>, <<1, 97, 0, 80, 0>>}
    IN  UNION {Prefixes(h \o b) : h \in headers, b \in bodies}
            \cup {<<>>, <<5>>, <<5, 0>>, <<5, 0, 0>>, <<5, 9>>, <<5, 9, 0>>}

\* Well-formed AuthRequests <<1, ULEN>> uname <<PLEN>> passwd with the
\* lengths at both ends of 1..255
CredentialLengths == {1, 2, 254, 255}
FullAuthRequests ==
    {<<1, u>> \o AsciiName(u) \o <<p>> \o AsciiName(p) :
        u \in CredentialLengths, p \in CredentialLengths}

\* Method values built from the public variants: the four fixed methods,
\* and IanaAssigned and Private holding bytes inside and outside their
\* ranges
MethodValues ==
    {Fixed(f) : f \in {NoAuth, GssApi, UsePass, NoAcceptable}}
        \cup {IanaAssigned(b) : b \in {0, 2, 3, 127, 128, 255}}
        \cup {Private(b) : b \in {0, 2, 3, 128, 254, 255}}

\* Pairs of requests that differ only in byte 2: a request of at least 3
\* bytes, and the value its reserved byte is replaced by
ReservedBytes == {0, 7, 255}
ReservedPairs ==
    {[buf |-> b, rsv |-> r] :
        b \in {x \in ConnCodecInputs : Len(x) >= 3 /\ x[1] = 5},
        r \in ReservedBytes \ {7}}

\* The two statuses, and reply buffers of every length up to 3 over the
\* bytes the decoder tells apart
AuthStatuses == {"Success", "Failure"}
AuthReplyCodecBytes == {0, 1, 2, 5, 255}
AuthReplyCodecInputs == SeqsUpTo(AuthReplyCodecBytes, 3)

\* What handle_client passes to send_conn_reply: Succeeded with the local
\* address of the outbound socket and the tag derived from it, or
\* CommandNotSupported with 0.0.0.0:0
BoundAddrs ==
    {a \in Addresses : a.variant \in {"V4", "V6"}} \cup LocalAddrs
HandlerReplies ==
    {[rep |-> "Succeeded", atyp |-> bnd_atyp(bnd), addr |-> bnd] : bnd \in BoundAddrs}
        \cup {[rep |-> "CommandNotSupported", atyp |-> "V4",
               addr |-> AddrPort_V4(Ipv4Addr_new(0, 0, 0, 0), 0)]}

\* The codec functions are called by a process whose bind succeeded; one
\* whose bind failed has returned from main and calls none
CodecInit ==
    /\ \E listener \in BindOutcomes : server = bind(listener)
    /\ conn = <<>>
    /\ IF server.main # None THEN call = NoCall
       ELSE call \in {Call("Method::from_u8", b) : b \in Bytes}
               \cup {Call("VersionMessage::try_from", bytes) : bytes \in VersionCodecInputs}
               \cup {Call("AuthRequest::try_from", bytes) : bytes \in AuthCodecInputs}
               \cup {Call("ConnRequest::try_from", buf) : buf \in ConnCodecInputs}
               \cup {Call("ConnRequest::to_bytes", req) : req \in RequestValues}
               \cup {Call("ConnReply::to_bytes", reply) : reply \in ReplyValues}
               \cup {Call("ConnReply::try_from", buf) : buf \in ReplyCodecInputs}
               \cup {Call("Socks5::read_auth_request", msg) : msg \in FullAuthRequests}
               \cup {Call("Method::eq", <<m1, m2>>) : m1 \in MethodValues, m2 \in MethodValues}
               \cup {Call("ConnRequest::try_from (RSV)", p) : p \in ReservedPairs}
               \cup {Call("AuthReply::to_bytes", AuthReply_new(status)) : status \in AuthStatuses}
               \cup {Call("AuthReply::try_from", bytes) : bytes \in AuthReplyCodecInputs}
               \cup {Call("Socks5::send_conn_reply", r) : r \in HandlerReplies}

\* The call returns what the function computes
Returned(fn, output) ==
    /\ call.fn = fn
    /\ call.output = None
    /\ call' = [call EXCEPT !.output = Some(output)]
    /\ UNCHANGED <<server, conn>>

Method_from_u8_call == Returned("Method::from_u8", Method_from_u8(call.input))

\* method.to_u8() of the method from_u8 returned
Method_to_u8_call ==
    /\ call.fn = "Method::from_u8"
    /\ call.output # None
    /\ call.back = None
    /\ call.output.val.tag = "Ok"
    /\ call' = [call EXCEPT !.back = Some(Method_to_u8(call.output.val.val))]
    /\ UNCHANGED <<server, conn>>

VersionMessage_try_from_call ==
    Returned("VersionMessage::try_from", VersionMessage_try_from(call.input))

AuthRequest_try_from_call ==
    Returned("AuthRequest::try_from", AuthRequest_try_from(call.input))

ConnRequest_try_from_call ==
    Returned("ConnRequest::try_from", ConnRequest_try_from(call.input))

ConnRequest_to_bytes_call ==
    Returned("ConnRequest::to_bytes", ConnRequest_to_bytes(call.input))

\* ConnRequest::try_from(&bytes) of the bytes to_bytes returned
ConnRequest_decode_back_call ==
    /\ call.fn = "ConnRequest::to_bytes"
    /\ call.output # None
    /\ call.back = None
    /\ call' = [call EXCEPT !.back = Some(ConnRequest_try_from(call.output.val))]
    /\ UNCHANGED <<server, conn>>

ConnReply_to_bytes_call ==
    Returned("ConnReply::to_bytes", ConnReply_to_bytes(call.input))

\* ConnReply::try_from(&bytes) of the bytes to_bytes returned
ConnReply_decode_back_call ==
    /\ call.fn = "ConnReply::to_bytes"
    /\ call.output # None
    /\ call.back = None
    /\ call' = [call EXCEPT !.back = Some(ConnReply_try_from(call.output.val))]
    /\ UNCHANGED <<server, conn>>

\* req.to_bytes() of the request try_from returned
ConnRequest_encode_back_call ==
    /\ call.fn = "ConnRequest::try_from"
    /\ call.output # None
    /\ call.back = None
    /\ call.output.val.tag = "Ok"
    /\ call' = [call EXCEPT !.back = Some(ConnRequest_to_bytes(call.output.val.val))]
    /\ UNCHANGED <<server, conn>>

ConnReply_try_from_call ==
    Returned("ConnReply::try_from", ConnReply_try_from(call.input))

\* ConnReply::from_bytes(&bytes) of the bytes try_from was called on
ConnReply_from_bytes_call ==
    /\ call.fn = "ConnReply::try_from"
    /\ call.output # None
    /\ call.back = None
    /\ call' = [call EXCEPT !.back = Some(ConnReply_from_bytes(call.input))]
    /\ UNCHANGED <<server, conn>>

\* The client delivers the whole message; stream.read fills at most the
\* 512 bytes of buf
read_auth_request_call ==
    Returned("Socks5::read_auth_request", read_auth_request(Ok(Prefix(call.input, BufSize))))

\* m1 == m2
Method_eq_call == Returned("Method::eq", Method_eq(call.input[1], call.input[2]))

ConnRequest_try_from_rsv_call ==
    Returned("ConnRequest::try_from (RSV)", ConnRequest_try_from(call.input.buf))

\* ConnRequest::try_from of the same bytes with another reserved byte
ConnRequest_try_from_other_rsv_call ==
    /\ call.fn = "ConnRequest::try_from (RSV)"
    /\ call.output # None
    /\ call.back = None
    /\ call' = [call EXCEPT !.back =
                    Some(ConnRequest_try_from([call.input.buf EXCEPT ![3] = call.input.rsv]))]
    /\ UNCHANGED <<server, conn>>

AuthReply_to_bytes_call ==
    Returned("AuthReply::to_bytes", AuthReply_to_bytes(call.input))

\* AuthReply::try_from(&bytes) of the bytes to_bytes returned
AuthReply_decode_back_call ==
    /\ call.fn = "AuthReply::to_bytes"
    /\ call.output # None
    /\ call.back = None
    /\ call' = [call EXCEPT !.back = Some(AuthReply_try_from(call.output.val))]
    /\ UNCHANGED <<server, conn>>

AuthReply_try_from_call ==
    Returned("AuthReply::try_from", AuthReply_try_from(call.input))

\* The bytes send_conn_reply hands to write_all
send_conn_reply_call ==
    Returned("Socks5::send_conn_reply",
             send_conn_reply_bytes(call.input.rep, call.input.atyp, call.input.addr))

CodecNext ==
    \/ Method_from_u8_call
    \/ Method_to_u8_call
    \/ VersionMessage_try_from_call
    \/ AuthRequest_try_from_call
    \/ ConnRequest_try_from_call
    \/ ConnRequest_to_bytes_call
    \/ ConnRequest_decode_back_call
    \/ ConnReply_to_bytes_call
    \/ ConnReply_decode_back_call
    \/ ConnRequest_encode_back_call
    \/ ConnReply_try_from_call
    \/ ConnReply_from_bytes_call
    \/ read_auth_request_call
    \/ Method_eq_call
    \/ ConnRequest_try_from_rsv_call
    \/ ConnRequest_try_from_other_rsv_call
    \/ AuthReply_to_bytes_call
    \/ AuthReply_decode_back_call
    \/ AuthReply_try_from_call
    \/ send_conn_reply_call

CodecSpec == CodecInit /\ [][CodecNext]_vars

\* The call of fn has returned
Done(fn) == call.fn = fn /\ call.output # None

---------------------------------------------------------------------------
(* C11: a ConnRequest cut inside its address.                              *)

\* The address bytes the tag of buf[3] requires after byte 3: 6 for IPv4,
\* 18 for IPv6, 1 + len + 2 for a domain (more than are there when the
\* length byte itself is missing)
AddressBytesRequired(buf) ==
    CASE At(buf, 3) = 1 -> 6
      [] At(buf, 3) = 4 -> 18
      [] At(buf, 3) = 3 -> IF Len(buf) < 5 THEN 3 ELSE 1 + At(buf, 4) + 2

\* At least 4 bytes, a valid command, a valid ATYP, and a truncated address
TruncatedAddress(buf) ==
    /\ Len(buf) >= 4
    /\ At(buf, 1) \in {1, 2, 3}
    /\ At(buf, 3) \in {1, 3, 4}
    /\ Len(buf) - 4 < AddressBytesRequired(buf)

\* C11: for every input of at least 4 bytes with a valid command and a
\* valid ATYP but fewer address bytes than the tag requires, the 4-byte
\* ATYP = 3 input included, ConnRequest::try_from returns the error
\* ConnRequestTooShort or InvalidDomain and never aborts.
C11_TruncatedAddressIsError ==
    (Done("ConnRequest::try_from") /\ TruncatedAddress(call.input)) =>
        /\ call.output.val.tag = "Err"
        /\ call.output.val.err \in {ConnRequestTooShort, InvalidDomain}

---------------------------------------------------------------------------
(* Several connections negotiated concurrently: main spawns one            *)
(* handle_client task per accepted connection, and the tasks' awaits        *)
(* interleave in any order.                                                *)

ConcurrentIds == {1, 2}

\* NoAuth only, UserPass only, both, a private method, a wrong version
ConcurrentVersionInputs ==
    {<<5, 1, 0>>, <<5, 1, 2>>, <<5, 2, 2, 0>>, <<5, 1, 128>>, <<4, 1, 0>>}

\* Accepted credentials, rejected credentials, invalid UTF-8 in the
\* username and in the password, a message cut before the username and
\* one cut before the password
ConcurrentAuthInputs ==
    {<<1, 1, 97, 1, 97>>, <<1, 1, 97, 1, 98>>, <<1, 1, 255, 1, 97>>,
     <<1, 1, 97, 1, 255>>, <<1, 1, 97>>, <<1, 1, 97, 2, 97>>}

\* CONNECT, BIND, a cut message, the 4-byte domain request
ConcurrentConnInputs ==
    {<<5, 1, 0, 1>> \o V4Body, <<5, 2, 0, 1>> \o V4Body, <<5, 1, 0>>, <<5, 1, 0, 3>>}

ConcurrentNext ==
    \/ allow_no_auth
    \/ allow_userpass
    \/ local_addr
    \/ accept_conn(ConcurrentIds)
    \/ \E c \in DOMAIN conn : drop_runtime(c)
    \/ main_return
    \/ \E c \in DOMAIN conn : authenticate_read_version(c, ConcurrentVersionInputs)
    \/ \E c \in DOMAIN conn : authenticate_send_selection(c)
    \/ \E c \in DOMAIN conn : authenticate_read_auth(c, ConcurrentAuthInputs)
    \/ \E c \in DOMAIN conn : authenticate_send_auth_reply(c)
    \/ \E c \in DOMAIN conn : handle_client_read_conn(c, ConcurrentConnInputs)
    \/ \E c \in DOMAIN conn : handle_client_connect(c)
    \/ \E c \in DOMAIN conn : handle_client_send_reply(c)
    \/ \E c \in DOMAIN conn : handle_client_relay(c)
    \/ \E c \in DOMAIN conn : handle_client_shutdown(c)

ConcurrentSpec == Init /\ [][ConcurrentNext]_vars

---------------------------------------------------------------------------
(* C12: connection isolation.                                              *)

\* What one await of a task can make of its connection's record s, given
\* the configuration and the outcome of the task's own transport operation
OwnSteps(self, s) ==
    CASE s.pc = "read_version" ->
            {authenticate_read_version_next(self, s, r) :
                r \in ReadOutcomes(ConcurrentVersionInputs)}
      [] s.pc = "send_selection" ->
            {authenticate_send_selection_next(s, w) : w \in WriteOutcomes}
      [] s.pc = "read_auth" ->
            {authenticate_read_auth_next(self, s, r) :
                r \in ReadOutcomes(ConcurrentAuthInputs)}
      [] s.pc = "send_auth_reply" ->
            {authenticate_send_auth_reply_next(s, w) : w \in WriteOutcomes}
      [] s.pc = "read_conn" ->
            {handle_client_read_conn_next(s, r) :
                r \in ReadOutcomes(ConcurrentConnInputs)}
      [] s.pc = "connect" ->
            {handle_client_connect_next(s, o) : o \in ConnectOutcomes}
      [] s.pc = "send_conn_reply" ->
            {handle_client_send_reply_next(s, w) : w \in WriteOutcomes}
      [] s.pc = "relay" ->
            {handle_client_relay_next(s, ok) : ok \in BOOLEAN}
      [] s.pc = "shutdown" ->
            {handle_client_shutdown_next(s, ok) : ok \in BOOLEAN}
      [] OTHER -> {}

\* C12: with several connections negotiated concurrently in any
\* interleaving, the configuration is never changed once accepting has
\* started, every step changes the record (bytes written, outcome) of at
\* most one connection, and what it becomes depends only on the
\* configuration and that connection's own record and input: a decode
\* error, authentication failure, I/O error or panic on one connection
\* changes nothing on any other.
C12_ConnectionIsolation ==
    [][/\ server.accepting =>
            /\ server'.allow_no_auth = server.allow_no_auth
            /\ server'.userpass_validator = server.userpass_validator
       /\ \A c \in DOMAIN conn :
            conn'[c] # conn[c] =>
              /\ \A d \in DOMAIN conn \ {c} : conn'[d] = conn[d]
              /\ conn'[c] \in OwnSteps(server, conn[c])]_vars

---------------------------------------------------------------------------
(* C13: the error of a failed negotiation and its cause.                   *)

\* Why the negotiation of s failed, read off its transport operations:
\* 0xFF was selected and sent; the failure reply was sent; the AuthRequest
\* read was cut before the username or the password; its username or
\* password is not valid UTF-8.  "" when none of these happened.
Cause(s) ==
    LET ab == BytesRead(s, "auth_request")
        sel == OpsOf(s, "write", "selection")
        rep == OpsOf(s, "write", "auth_reply")
        framed == HasOp(s, "read", "auth_request") /\ OpsOf(s, "read", "auth_request")[1].ok
                    /\ Len(ab) >= 2 /\ ab[1] = 1
    IN  IF sel # <<>> /\ sel[1].ok /\ sel[1].bytes = <<5, 255>> THEN "no acceptable method"
        ELSE IF rep # <<>> /\ rep[1].ok /\ rep[1].bytes = <<1, 1>> THEN "credentials rejected"
        ELSE IF ~framed THEN ""
        ELSE IF Len(ab) < 3 + ab[2] THEN "truncated"
        ELSE IF ~Utf8ValidFrom(WireUname(ab), 0) THEN "invalid encoding"
        ELSE IF Len(ab) < 3 + ab[2] + ab[3 + ab[2]] THEN "truncated"
        ELSE IF ~Utf8ValidFrom(WirePasswd(ab), 0) THEN "invalid encoding"
        ELSE ""

\* C13 as claimed: the error of a failed negotiation identifies its cause
\* with pairwise distinct error kinds (NoAcceptableMethod,
\* AuthenticationFailed, Truncated, InvalidEncoding): two negotiations that
\* failed for different causes return errors of different kinds.
C13_DistinctKinds ==
    \A c, d \in DOMAIN conn :
        (Cause(conn[c]) # "" /\ Cause(conn[d]) # "" /\ Cause(conn[c]) # Cause(conn[d])
            /\ IsErr(conn[c].auth_result) /\ IsErr(conn[d].auth_result))
        => conn[c].auth_result.val.err.kind # conn[d].auth_result.val.err.kind

\* The reason strings the code gives for each cause
Reasons(cause) ==
    CASE cause = "no acceptable method" -> {"no acceptable method"}
      [] cause = "credentials rejected" -> {"invalid credentials"}
      [] cause = "truncated" -> {"truncated before username", "truncated before password"}
      [] cause = "invalid encoding" -> {"invalid UTF-8 in username", "invalid UTF-8 in password"}

\* C13 amended: the error of a negotiation that failed for one of the four
\* causes is of the one kind AuthFailed and identifies the cause by its
\* reason string; two negotiations that failed for different causes return
\* different errors.
C13_DistinctReasons ==
    /\ \A c \in DOMAIN conn :
          Cause(conn[c]) # "" =>
              /\ IsErr(conn[c].auth_result)
              /\ conn[c].auth_result.val.err.kind = "AuthFailed"
              /\ conn[c].auth_result.val.err.msg \in Reasons(Cause(conn[c]))
    /\ \A c, d \in DOMAIN conn :
          (Cause(conn[c]) # "" /\ Cause(conn[d]) # "" /\ Cause(conn[c]) # Cause(conn[d]))
          => conn[c].auth_result.val.err # conn[d].auth_result.val.err

\* One negotiation failed for want of an acceptable method, the other on
\* rejected credentials
C13_Witness ==
    /\ DOMAIN conn = ConcurrentIds
    /\ Cause(conn[1]) = "no acceptable method"
    /\ Cause(conn[2]) = "credentials rejected"
    /\ IsErr(conn[1].auth_result)
    /\ IsErr(conn[2].auth_result)

---------------------------------------------------------------------------
(* C14: no extra round trip after NoAuth.                                  *)

\* C14: when NoAuth is selected the server writes exactly [0x05, 0x00],
\* the validator is not invoked, no AuthRequest is read and no AuthReply
\* is written, and the operation after the selection write is the read of
\* the ConnRequest.
C14_NoAuthNoRoundTrip ==
    \A c \in DOMAIN conn :
        LET s == conn[c]
        IN  (s.version_msg # None /\ s.selected = Fixed(NoAuth)) =>
              /\ s.validated = <<>>
              /\ ~HasOp(s, "read", "auth_request")
              /\ ~HasOp(s, "write", "auth_reply")
              /\ Len(s.ops) >= 2 =>
                    /\ s.ops[2] = [op |-> "write", phase |-> "selection",
                                   ok |-> s.ops[2].ok, bytes |-> <<5, 0>>]
                    /\ s.ops[2].ok /\ Len(s.ops) = 2 => s.pc = "read_conn"
                    /\ s.ops[2].ok /\ Len(s.ops) >= 3 =>
                          (s.ops[3].op = "read" /\ s.ops[3].phase = "conn_request")
                    /\ ~s.ops[2].ok => ~HasOp(s, "read", "conn_request")

\* NoAuth was selected, [5, 0] written and the ConnRequest read
C14_Witness ==
    \E c \in DOMAIN conn :
        /\ conn[c].selected = Fixed(NoAuth)
        /\ Len(conn[c].ops) >= 3
        /\ conn[c].ops[2].ok
        /\ conn[c].ops[3].op = "read"
        /\ conn[c].ops[3].ok

---------------------------------------------------------------------------
(* C15: what the negotiation engine itself does on the wire.               *)

\* The operations of s up to and including the read of the ConnRequest:
\* the run of authenticate followed by read_conn_request
EngineOps(s) ==
    LET reads == {i \in DOMAIN s.ops : s.ops[i].op = "read" /\ s.ops[i].phase = "conn_request"}
    IN  IF reads = {} THEN s.ops
        ELSE SubSeq(s.ops, 1, CHOOSE i \in reads : \A j \in reads : i <= j)

\* C15: over any run of authenticate followed by read_conn_request no
\* destination socket is opened and no ConnReply written: the only writes
\* to the client are one 2-byte MethodSelection and, after it, at most one
\* 2-byte AuthReply.
C15_EngineWrites ==
    \A c \in DOMAIN conn :
        LET ops == EngineOps(conn[c])
            writes == SelectSeq(ops, LAMBDA o : o.op = "write")
        IN  /\ \A i \in DOMAIN ops : ops[i].op \in {"read", "write", "shutdown"}
            /\ Len(writes) <= 2
            /\ \A i \in DOMAIN writes : Len(writes[i].bytes) = 2
            /\ Len(writes) >= 1 => writes[1].phase = "selection"
            /\ Len(writes) = 2 => writes[2].phase = "auth_reply"
            /\ HasOp(conn[c], "read", "conn_request") => Len(writes) >= 1
            /\ conn[c].pc \in {"read_version", "send_selection", "read_auth",
                               "send_auth_reply", "read_conn"}
                  => conn[c].target = None /\ conn[c].reply = None

\* authenticate sent both replies and read_conn_request returned a request
C15_Witness ==
    \E c \in DOMAIN conn :
        /\ HasOp(conn[c], "write", "auth_reply")
        /\ IsOk(conn[c].conn_req)
        /\ Len(EngineOps(conn[c])) = 5

---------------------------------------------------------------------------
(* C16: the order of the checks of VersionMessage::try_from.               *)

\* The method a byte stands for
MethodOfByte(b) ==
    IF b \in {0, 1, 2, 255} THEN Fixed(b)
    ELSE IF b <= 127 THEN IanaAssigned(b)
    ELSE Private(b)

\* C16: fewer than 2 bytes -> VersionMessageTooShort (even if byte 0 is not
\* 5); else byte 0 # 5 -> UnsupportedVersion; else fewer than 2 + NMETHODS
\* bytes -> IncompleteVersionMessage; otherwise Ok with exactly the
\* NMETHODS methods that follow, in order.
C16_VersionDecodeOrder ==
    Done("VersionMessage::try_from") =>
        LET b == call.input
            out == call.output.val
        IN  IF Len(b) < 2 THEN out = Err(VersionMessageTooShort)
            ELSE IF b[1] # 5 THEN out = Err(UnsupportedVersion(b[1]))
            ELSE IF Len(b) < 2 + b[2] THEN out = Err(IncompleteVersionMessage)
            ELSE /\ out.tag = "Ok"
                 /\ out.val.ver = 5
                 /\ out.val.methods = [i \in 1..b[2] |-> MethodOfByte(b[2 + i])]

\* [5, 3, 0] has been decoded: NMETHODS exceeds the bytes that follow
C16_Witness ==
    /\ Done("VersionMessage::try_from")
    /\ call.input = <<5, 3, 0>>
    /\ call.output.val = Err(IncompleteVersionMessage)

---------------------------------------------------------------------------
(* C17: the order of the checks of ConnRequest::try_from.                  *)

CommandOfByte(b) ==
    CASE b = 1 -> "Connect"
      [] b = 2 -> "Bind"
      [] b = 3 -> "UdpAssociate"

\* The request decoded from b carries the command and address encoded in b
CarriesWhatIsEncoded(req, b) ==
    /\ req.cmd = CommandOfByte(b[2])
    /\ ATYP_as_u8(req.atyp) = b[4]
    /\ CASE b[4] = 1 -> /\ req.dst.variant = "V4"
                        /\ AddrPort_to_bytes(req.dst) = SubSeq(b, 5, 10)
         [] b[4] = 4 -> /\ req.dst.variant = "V6"
                        /\ AddrPort_to_bytes(req.dst) = SubSeq(b, 5, 22)
         [] b[4] = 3 -> /\ req.dst.variant = "Domain"
                        /\ req.dst.host = String_from_utf8_lossy(SubSeq(b, 6, 5 + b[5]))
                        /\ u16_to_be_bytes(req.dst.port) = SubSeq(b, 6 + b[5], 7 + b[5])

\* C17: for every input, fewer than 4 bytes -> ConnRequestTooShort; else
\* byte 1 not in {1, 2, 3} -> UnsupportedCommand (even if ATYP is invalid
\* too); else byte 3 not in {1, 3, 4} -> InvalidAddressType; else a
\* truncated IPv4/IPv6 address -> ConnRequestTooShort and a truncated domain
\* -> InvalidDomain; otherwise Ok with the command and address encoded in
\* the bytes.
C17_ConnDecodeOrder ==
    Done("ConnRequest::try_from") =>
        LET b == call.input
            out == call.output.val
        IN  IF Len(b) < 4 THEN out = Err(ConnRequestTooShort)
            ELSE IF b[2] \notin {1, 2, 3} THEN out = Err(UnsupportedCommand(b[2]))
            ELSE IF b[4] \notin {1, 3, 4} THEN out = Err(InvalidAddressType(b[4]))
            ELSE IF TruncatedAddress(b)
            THEN out = Err(IF b[4] = 3 THEN InvalidDomain ELSE ConnRequestTooShort)
            ELSE out.tag = "Ok" /\ CarriesWhatIsEncoded(out.val, b)

---------------------------------------------------------------------------
(* C18: the order of the checks of AuthRequest::try_from.                  *)

\* C18: fewer than 2 bytes -> AuthMessageTooShort; byte 0 # 1 ->
\* UnsupportedAuthVersion; fewer than 2 + ULEN + 1 bytes -> truncated before
\* username; username not valid UTF-8 -> invalid encoding; fewer than
\* 2 + ULEN + 1 + PLEN bytes -> truncated before password; password not
\* valid UTF-8 -> invalid encoding; otherwise Ok with exactly the ULEN
\* username bytes and the PLEN password bytes.  Every input gets one of
\* these results: the decoder never reads past the end of the buffer.
C18_AuthDecodeOrder ==
    Done("AuthRequest::try_from") =>
        LET b == call.input
            out == call.output.val
        IN  IF Len(b) < 2 THEN out = Err(AuthMessageTooShort)
            ELSE IF b[1] # 1 THEN out = Err(UnsupportedAuthVersion(b[1]))
            ELSE IF Len(b) < 2 + b[2] + 1
            THEN out = Err(AuthFailed("truncated before username"))
            ELSE IF ~Utf8ValidFrom(WireUname(b), 0)
            THEN out = Err(AuthFailed("invalid UTF-8 in username"))
            ELSE IF Len(b) < 2 + b[2] + 1 + b[3 + b[2]]
            THEN out = Err(AuthFailed("truncated before password"))
            ELSE IF ~Utf8ValidFrom(WirePasswd(b), 0)
            THEN out = Err(AuthFailed("invalid UTF-8 in password"))
            ELSE out = Ok([ver |-> 1, uname |-> WireUname(b), passwd |-> WirePasswd(b)])

\* A request whose username is not valid UTF-8 and whose password is cut
\* has been decoded: the username's encoding is reported
C18_Witness ==
    /\ Done("AuthRequest::try_from")
    /\ call.input = <<1, 1, 195, 2, 97>>
    /\ call.output.val = Err(AuthFailed("invalid UTF-8 in username"))

---------------------------------------------------------------------------
(* C19: the lengths of a decoded username and password.                    *)

\* C19: every AuthRequest that decodes successfully, and every (username,
\* password) pair handed to the validator, has a username of 1 to 255 bytes
\* and a password of 1 to 255 bytes.
C19_CredentialLengths ==
    \A c \in DOMAIN conn :
        LET s == conn[c]
        IN  /\ s.auth_req # None =>
                  /\ Len(s.auth_req.val.uname) \in 1..255
                  /\ Len(s.auth_req.val.passwd) \in 1..255
            /\ \A i \in DOMAIN s.validated :
                  /\ Len(s.validated[i].uname) \in 1..255
                  /\ Len(s.validated[i].passwd) \in 1..255

---------------------------------------------------------------------------
(* C20: the method byte codec.                                             *)

\* C20: for every byte b, Method::from_u8(b) succeeds, is Fixed for 0x00,
\* 0x01, 0x02 and 0xFF, IanaAssigned for 0x03..0x7F and Private for
\* 0x80..0xFE, and to_u8 of it is b.
C20_MethodByteBijection ==
    Done("Method::from_u8") =>
        LET b == call.input
            out == call.output.val
        IN  /\ out.tag = "Ok"
            /\ out.val.variant =
                  (IF b \in {0, 1, 2, 255} THEN "Fixed"
                   ELSE IF b \in 3..127 THEN "IanaAssigned"
                   ELSE "Private")
            /\ call.back # None => call.back.val = b

\* Every byte is called on; 0xFF has gone through from_u8 and to_u8
C20_Witness ==
    /\ Done("Method::from_u8")
    /\ call.input = 255
    /\ call.back = Some(255)

---------------------------------------------------------------------------
(* C21: the address round trip.                                            *)

\* An IPv4 or IPv6 address, or a domain name of 1 to 255 bytes
CarriesWireAddress(a) ==
    a.variant = "Domain" => Len(a.host) \in 1..255

\* C21: for every address (IPv4, IPv6, a domain name of 1 to 255 bytes of
\* valid UTF-8, and any port), decoding the bytes to_bytes produced for a
\* request or a reply that carries it yields the same address and the same
\* address-type tag.
C21_AddressRoundTrip ==
    /\ (call.fn = "ConnRequest::to_bytes" /\ call.back # None
            /\ CarriesWireAddress(call.input.dst)) =>
          /\ call.back.val.tag = "Ok"
          /\ call.back.val.val.dst = call.input.dst
          /\ call.back.val.val.atyp = call.input.atyp
    /\ (call.fn = "ConnReply::to_bytes" /\ call.back # None
            /\ CarriesWireAddress(call.input.bnd)) =>
          /\ call.back.val.tag = "Ok"
          /\ call.back.val.val.bnd = call.input.bnd
          /\ call.back.val.val.atyp = call.input.atyp

\* A request with a 255-byte domain name has been encoded and decoded
C21_Witness ==
    /\ call.fn = "ConnRequest::to_bytes"
    /\ call.back # None
    /\ call.input.dst.variant = "Domain"
    /\ Len(call.input.dst.host) = 255
    /\ call.input.dst.host[1] = 195

---------------------------------------------------------------------------
(* C22: the byte-level round trip of requests.                             *)

\* x ends with its address and port
NoTrailingBytes(x) == Len(x) = 4 + AddressBytesRequired(x)

\* C22: for every byte sequence x that ConnRequest::try_from accepts and
\* that has no bytes beyond the declared address and port, to_bytes of the
\* decoded request is x byte for byte, for all three address types and for
\* every content of the domain-name bytes.
C22_RequestBytesRoundTrip ==
    (call.fn = "ConnRequest::try_from" /\ call.back # None /\ NoTrailingBytes(call.input))
        => call.back.val = call.input

---------------------------------------------------------------------------
(* C23: the length of a decoded domain name.                               *)

\* The call decoded a Domain address: the address it returned
DecodedDomain ==
    IF call.fn = "ConnRequest::try_from" THEN call.output.val.val.dst
    ELSE call.output.val.val.bnd

\* C23: for every successfully decoded Domain address, in a ConnRequest or
\* a ConnReply, the byte length of the decoded name equals the length
\* prefix declared on the wire, whatever the name bytes are.
C23_DecodedNameLength ==
    (/\ call.fn \in {"ConnRequest::try_from", "ConnReply::try_from"}
     /\ call.output # None
     /\ call.output.val.tag = "Ok"
     /\ DecodedDomain.variant = "Domain") =>
        Len(DecodedDomain.host) = At(call.input, 4)

---------------------------------------------------------------------------
(* C24: the read buffer and the largest AuthRequest.                       *)

\* C24: for every username length ULEN and password length PLEN in 1..255,
\* an AuthRequest of 3 + ULEN + PLEN bytes that the client delivers in full
\* is decoded by read_auth_request, without a truncation error, into the
\* username and the password it carries.
C24_EveryAuthRequestReadable ==
    Done("Socks5::read_auth_request") =>
        LET ulen == call.input[2]
            plen == call.input[3 + ulen]
        IN  /\ call.output.val.tag = "Ok"
            /\ call.output.val.val.uname = SubSeq(call.input, 3, 2 + ulen)
            /\ call.output.val.val.passwd = SubSeq(call.input, 4 + ulen, 3 + ulen + plen)

---------------------------------------------------------------------------
(* C25: a message that arrives in more than one segment.                   *)

\* The messages a phase reads, and what its decoder makes of them
PhaseInputs(phase) ==
    CASE phase = "version" -> VersionInputs
      [] phase = "auth_request" -> AuthInputs
      [] phase = "conn_request" -> ConnInputs
PhaseDecode(phase, bytes) ==
    CASE phase = "version" -> VersionMessage_try_from(bytes)
      [] phase = "auth_request" -> AuthRequest_try_from(bytes)
      [] phase = "conn_request" -> ConnRequest_try_from(bytes)

\* b is the first segment of a well-formed message: a non-empty proper
\* prefix of a message the decoder accepts, not yet a message itself
FirstSegment(phase, b) ==
    /\ b # <<>>
    /\ PhaseDecode(phase, b).tag # "Ok"
    /\ \E m \in PhaseInputs(phase) :
            /\ Len(m) <= BufSize
            /\ Len(b) < Len(m)
            /\ b = Prefix(m, Len(b))
            /\ PhaseDecode(phase, m).tag = "Ok"

\* C25: when the first read of a well-formed version message, AuthRequest
\* or ConnRequest returns only a proper prefix of it, the engine waits for
\* the remaining bytes instead of failing: after that read the connection
\* is neither shutting down, nor aborted, nor finished.
C25_SplitReadsAreJoined ==
    \A c \in DOMAIN conn :
        LET s == conn[c]
            last == s.ops[Len(s.ops)]
        IN  (/\ s.ops # <<>>
             /\ last.op = "read"
             /\ last.ok
             /\ FirstSegment(last.phase, last.bytes)) =>
                s.pc \notin {"shutdown", "panicked", "done"}

---------------------------------------------------------------------------
(* C26: equality of Method values.                                         *)

\* C26: for all Method values m1 and m2, including values built directly
\* from the public variants, m1 == m2 if and only if
\* to_u8(m1) == to_u8(m2).
C26_EqualityByRawByte ==
    Done("Method::eq") =>
        (call.output.val <=> (Method_to_u8(call.input[1]) = Method_to_u8(call.input[2])))

---------------------------------------------------------------------------
(* C27: the length byte of an encoded domain name.                         *)

\* The address the encoded value carries
EncodedAddress ==
    IF call.fn = "ConnRequest::to_bytes" THEN call.input.dst ELSE call.input.bnd

\* C27: for every Domain value that can be constructed, names longer than
\* 255 bytes included, to_bytes emits after the 4-byte header 1 length
\* byte, exactly that many name bytes, and the 2-byte big-endian port: the
\* length byte equals the number of name bytes that follow it.
C27_DomainLengthByte ==
    (/\ call.fn \in {"ConnRequest::to_bytes", "ConnReply::to_bytes"}
     /\ call.output # None
     /\ EncodedAddress.variant = "Domain") =>
        LET out == call.output.val
        IN  /\ Len(out) = 4 + 1 + Len(EncodedAddress.host) + 2
            /\ out[5] = Len(out) - 7
            /\ SubSeq(out, 6, Len(out) - 2) = EncodedAddress.host
            /\ SubSeq(out, Len(out) - 1, Len(out)) = u16_to_be_bytes(EncodedAddress.port)

---------------------------------------------------------------------------
(* C28: the version byte of a ConnRequest.                                 *)

\* C28: every ConnRequest returned to the caller by read_conn_request has
\* protocol version 5: a request whose first byte is not 0x05 is not
\* accepted.
C28_AcceptedRequestIsVersion5 ==
    \A c \in DOMAIN conn :
        IsOk(conn[c].conn_req) => conn[c].conn_req.val.val.ver = 5

---------------------------------------------------------------------------
(* C29: the reserved byte of a ConnRequest.                                *)

\* Two decodings with the same outcome: the same error (or the same abort),
\* or two requests with the same command, address type and destination
SameDecoding(r1, r2) ==
    /\ r1.tag = r2.tag
    /\ r1.tag = "Err" => r1.err = r2.err
    /\ r1.tag = "Ok" => /\ r1.val.cmd = r2.val.cmd
                        /\ r1.val.atyp = r2.val.atyp
                        /\ r1.val.dst = r2.val.dst

\* C29: for any two request byte sequences that differ only in byte 2
\* (RSV), ConnRequest::try_from either fails on both in the same way or
\* succeeds on both with the same command, address type and destination,
\* the reserved byte of each request being the one it was sent with.
C29_ReservedByteLenient ==
    (call.fn = "ConnRequest::try_from (RSV)" /\ call.back # None) =>
        /\ SameDecoding(call.output.val, call.back.val)
        /\ call.output.val.tag = "Ok" =>
                /\ call.output.val.val.rsv = call.input.buf[3]
                /\ call.back.val.val.rsv = call.input.rsv

\* A well-formed request was decoded with RSV = 0x00 and with RSV = 0xFF
C29_Witness ==
    /\ call.fn = "ConnRequest::try_from (RSV)"
    /\ call.back # None
    /\ call.input.buf[3] = 0
    /\ call.input.rsv = 255
    /\ call.output.val.tag = "Ok"
    /\ call.back.val.tag = "Ok"
    /\ call.back.val.val.dst.variant = "Domain"

---------------------------------------------------------------------------
(* C30: which replies the two ConnReply decoders accept.                   *)

\* At least 4 bytes, REP one of the 9 codes, ATYP one of the 3 tags, and
\* the address bytes the tag requires
AcceptableReply(buf) ==
    /\ Len(buf) >= 4
    /\ At(buf, 1) \in 0..8
    /\ At(buf, 3) \in {1, 3, 4}
    /\ Len(buf) >= 4 + AddressBytesRequired(buf)

\* C30: ConnReply::try_from returns Ok exactly on the acceptable replies
\* and an error value on every other input, and ConnReply::from_bytes
\* returns Some of the same reply where try_from returns Ok and None where
\* it returns an error.
C30_ReplyDecodersAgree ==
    (call.fn = "ConnReply::try_from" /\ call.back # None) =>
        IF AcceptableReply(call.input)
        THEN /\ call.output.val.tag = "Ok"
             /\ call.back.val = Some(call.output.val.val)
        ELSE /\ call.output.val.tag = "Err"
             /\ call.back.val = None

---------------------------------------------------------------------------
(* C31: the AuthReply codec.                                               *)

\* C31: encoding a status yields exactly [0x01, status byte] with
\* Success = 0x00 and Failure = 0x01; decoding a 2-byte reply with version
\* 1 maps status 0x00 to Success and every non-zero status to Failure; and
\* decoding the encoding of a status gives that status back.
C31_AuthReplyCodec ==
    /\ Done("AuthReply::to_bytes") =>
            /\ call.output.val =
                    <<1, IF call.input.status = "Success" THEN 0 ELSE 1>>
            /\ call.back # None =>
                    /\ call.back.val.tag = "Ok"
                    /\ call.back.val.val.status = call.input.status
    /\ (Done("AuthReply::try_from") /\ Len(call.input) = 2 /\ call.input[1] = 1) =>
            /\ call.output.val.tag = "Ok"
            /\ call.output.val.val.status = "Success" <=> call.input[2] = 0
            /\ call.output.val.val.status = "Failure" <=> call.input[2] # 0

\* [1, 255] has been decoded, to Failure
C31_Witness ==
    /\ Done("AuthReply::try_from")
    /\ call.input = <<1, 255>>
    /\ call.output.val.tag = "Ok"
    /\ call.output.val.val.status = "Failure"

---------------------------------------------------------------------------
(* C32: the method byte written, and the validator lookup.                 *)

\* C32: the method byte written to the client is 0x00, 0x02 or 0xFF; when
\* it is 0x00 or 0x02 that method was listed in the client's version
\* message and is enabled in the configuration; and whenever UserPass is
\* selected a validator is configured, so that the lookup of the validator
\* after the AuthRequest is read never aborts the connection.
C32_SelectedMethodIsEnabled ==
    \A c \in DOMAIN conn :
        LET s == conn[c]
            vb == BytesRead(s, "version")
            sel == OpsOf(s, "write", "selection")
        IN  /\ \A i \in DOMAIN sel :
                  /\ Len(sel[i].bytes) = 2
                  /\ sel[i].bytes[2] \in {0, 2, 255}
                  /\ sel[i].bytes[2] = 0 => Listed(vb, 0) /\ server.allow_no_auth
                  /\ sel[i].bytes[2] = 2 =>
                        Listed(vb, 2) /\ server.userpass_validator.tag = "Some"
            /\ (s.version_msg # None /\ s.selected = Fixed(UsePass)) =>
                  server.userpass_validator.tag = "Some"
            /\ (s.auth_req # None) =>
                  /\ Len(s.validated) = 1
                  /\ s.pc = "panicked" => s.ops[Len(s.ops)].phase # "auth_request"

\* UserPass was written back and the validator has been looked up and
\* called on the credentials read
C32_Witness ==
    \E c \in DOMAIN conn :
        /\ HasOp(conn[c], "write", "selection")
        /\ OpsOf(conn[c], "write", "selection")[1].bytes = <<5, 2>>
        /\ conn[c].auth_req # None
        /\ Len(conn[c].validated) = 1

---------------------------------------------------------------------------
(* C33: a server with no method enabled.                                   *)

\* Neither allow_no_auth nor allow_userpass was called
Unconfigured(self) == ~self.allow_no_auth /\ self.userpass_validator = None

\* C33: a server on which neither allow_no_auth nor allow_userpass was
\* called rejects every client: for every version message that decodes,
\* whatever methods it proposes, the server writes [0x05, 0xFF] and
\* authenticate fails; nothing else is written or read afterwards.
C33_UnconfiguredRejectsAll ==
    Unconfigured(server) =>
        \A c \in DOMAIN conn :
            LET s == conn[c]
                sel == OpsOf(s, "write", "selection")
            IN  /\ s.version_msg # None => s.selected = Fixed(NoAcceptable)
                /\ \A i \in DOMAIN sel : sel[i].bytes = <<5, 255>>
                /\ ~IsOk(s.auth_result)
                /\ (sel # <<>> /\ sel[1].ok) =>
                        s.auth_result = Some(Err(AuthFailed("no acceptable method")))
                /\ ~HasOp(s, "read", "auth_request")
                /\ ~HasOp(s, "read", "conn_request")
                /\ s.conn_req = None

\* On an unconfigured server a client that proposed both NoAuth and
\* UserPass has been answered [0x05, 0xFF]
C33_Witness ==
    /\ Unconfigured(server)
    /\ \E c \in DOMAIN conn :
          /\ Listed(BytesRead(conn[c], "version"), 0)
          /\ Listed(BytesRead(conn[c], "version"), 2)
          /\ OpsOf(conn[c], "write", "selection") =
                <<WriteOp("selection", Ok(<<>>), <<5, 255>>)>>
          /\ IsErr(conn[c].auth_result)

---------------------------------------------------------------------------
(* C34: the commands the handler does not carry out.                       *)

\* The reply to an unsupported command: VER 5, REP 0x07, RSV 0, ATYP 0x01,
\* 0.0.0.0, port 0
CommandNotSupportedReply == <<5, 7, 0, 1, 0, 0, 0, 0, 0, 0>>

\* C34: for a successfully decoded request whose command is Bind or
\* UdpAssociate, the handler writes one ConnReply with REP =
\* CommandNotSupported (0x07), ATYP = IPv4 and bound address 0.0.0.0:0,
\* opens no destination connection and does no relaying.
C34_UnsupportedCommandReply ==
    \A c \in DOMAIN conn :
        LET s == conn[c]
            replies == OpsOf(s, "write", "conn_reply")
        IN  (IsOk(s.conn_req) /\ s.conn_req.val.val.cmd \in {"Bind", "UdpAssociate"}) =>
                /\ \A i \in DOMAIN replies : replies[i].bytes = CommandNotSupportedReply
                /\ Len(replies) <= 1
                /\ s.pc = "done" => Len(replies) = 1
                /\ s.pc \in {"send_conn_reply", "done"}
                /\ s.target = None
                /\ \A i \in DOMAIN s.ops : s.ops[i].op \notin {"connect", "relay"}

\* The handler has returned after answering a UdpAssociate request for a
\* domain name
C34_Witness ==
    \E c \in DOMAIN conn :
        /\ IsOk(conn[c].conn_req)
        /\ conn[c].conn_req.val.val.cmd = "UdpAssociate"
        /\ conn[c].conn_req.val.val.dst.variant = "Domain"
        /\ conn[c].pc = "done"
        /\ OpsOf(conn[c], "write", "conn_reply") =
              <<WriteOp("conn_reply", Ok(<<>>), CommandNotSupportedReply)>>

---------------------------------------------------------------------------
(* C35: the address-type tag and the address it announces.                 *)

\* C35: every ConnReply the server writes has VER = 0x05, RSV = 0x00 and
\* an ATYP byte that matches the form of the bound address that follows it
\* (0x01 with a 4-byte address, 0x04 with a 16-byte address, each followed
\* by the 2-byte port); and every successfully decoded ConnRequest or
\* ConnReply has an address-type tag that agrees with the variant of its
\* address.
C35_TagAgreesWithAddress ==
    /\ Done("Socks5::send_conn_reply") =>
            LET out == call.output.val
            IN  /\ out[1] = 5
                /\ out[3] = 0
                /\ \/ out[4] = 1 /\ Len(out) = 4 + 4 + 2 /\ call.input.addr.variant = "V4"
                   \/ out[4] = 4 /\ Len(out) = 4 + 16 + 2 /\ call.input.addr.variant = "V6"
    /\ (Done("ConnRequest::try_from") /\ call.output.val.tag = "Ok") =>
            call.output.val.val.atyp = ATYP_of(call.output.val.val.dst)
    /\ (Done("ConnReply::try_from") /\ call.output.val.tag = "Ok") =>
            call.output.val.val.atyp = ATYP_of(call.output.val.val.bnd)
    /\ (call.fn = "ConnReply::try_from" /\ call.back # None /\ call.back.val.tag = "Some") =>
            call.back.val.val.atyp = ATYP_of(call.back.val.val.bnd)

\* The reply announcing an IPv6 bound address has been encoded
C35_Witness ==
    /\ Done("Socks5::send_conn_reply")
    /\ call.input.rep = "Succeeded"
    /\ call.input.addr.variant = "V6"
    /\ call.output.val[4] = 4

---------------------------------------------------------------------------
(* C36: the handshake terminates.                                          *)

\* One await of the engine on connection c: a transport read or write of
\* authenticate or of read_conn_request returns
EngineStep(c) ==
    /\ c \in DOMAIN conn
    /\ \/ authenticate_read_version(c, ConcurrentVersionInputs)
       \/ authenticate_send_selection(c)
       \/ authenticate_read_auth(c, ConcurrentAuthInputs)
       \/ authenticate_send_auth_reply(c)
       \/ handle_client_read_conn(c, ConcurrentConnInputs)

\* Two connections served by spawned tasks; every transport read and write
\* of each of them eventually returns
LiveSpec ==
    Init /\ [][ConcurrentNext]_vars /\ \A c \in ConcurrentIds : WF_vars(EngineStep(c))

\* The engine is still at work on the connection
EnginePcs == {"read_version", "send_selection", "read_auth", "send_auth_reply", "read_conn"}

\* The engine is through with connection c: read_conn_request has returned
\* a request or an error to the caller, or authenticate has failed, or the
\* task was aborted by a panic or dropped with the runtime when main
\* returned
EngineOutcome(c) ==
    /\ c \in DOMAIN conn
    /\ \/ /\ conn[c].pc \notin EnginePcs
          /\ \/ conn[c].conn_req # None
             \/ IsErr(conn[c].auth_result)
             \/ conn[c].pc = "panicked"
       \/ IsCancelled(conn[c])

\* At most three reads and two writes, no phase entered twice
EngineBound ==
    \A c \in DOMAIN conn :
        LET ops == EngineOps(conn[c])
            reads == SelectSeq(ops, LAMBDA o : o.op = "read")
            writes == SelectSeq(ops, LAMBDA o : o.op = "write")
        IN  /\ Len(reads) <= 3
            /\ Len(writes) <= 2
            /\ \A i, j \in DOMAIN ops :
                  (i # j /\ ops[i].op \in {"read", "write"} /\ ops[i].op = ops[j].op)
                      => ops[i].phase # ops[j].phase

\* C36: provided every transport read and write eventually returns, each
\* connection reaches a terminal outcome (the request returned to the
\* caller, or a failure) after at most three reads and two writes by the
\* engine, and no phase of the negotiation is run a second time.
C36_HandshakeTerminates ==
    /\ []EngineBound
    /\ \A c \in ConcurrentIds : (c \in DOMAIN conn) ~> EngineOutcome(c)

\* The engine returned a request after three reads and two writes
C36_Witness ==
    \E c \in DOMAIN conn :
        /\ EngineOutcome(c)
        /\ IsOk(conn[c].conn_req)
        /\ Len(SelectSeq(EngineOps(conn[c]), LAMBDA o : o.op = "read")) = 3
        /\ Len(SelectSeq(EngineOps(conn[c]), LAMBDA o : o.op = "write")) = 2

====
